---------------------------- MODULE Spec2Model ----------------------------
(***************************************************************************)
(* A model of generate_dashboard.py (navt09/dashboard): the batch run that *)
(* pulls events and prop lines from The Odds API, team lists, rosters and  *)
(* injuries from ESPN (through an on-disk cache), scores the props and     *)
(* renders AI_Prediction_Engine.html.                                      *)
(*                                                                         *)
(* Four specifications share the variables:                                *)
(*   Spec      a run of main(), statement by statement, split at every     *)
(*             HTTP request and every place an exception can leave main;   *)
(*   SpecEspn  calls of build_today_roster_index and fetch_espn_injuries   *)
(*             over several UTC days, against the cache files;             *)
(*   SpecLoop  the per-game loop of generate_top_props_for_league (lines   *)
(*             1005-1124) over the tables the ESPN functions return.       *)
(*   SpecFn    one call of parse_player_prop_lines, normalize_player_name, *)
(*             edge_score_from_projection or the scoring of one item, over *)
(*             arguments drawn from bounded sets.                          *)
(***************************************************************************)
EXTENDS Integers, Sequences, FiniteSets, TLC

VARIABLES
    \* the environment and the files that outlive a run
    ODDS_API_KEY,    \* line 131: the key read from the environment, stripped
    day,             \* the current UTC calendar day
    teammap_file,    \* cache/<league>_teammap.json, per league
    roster_file,     \* cache/<league>_rosters.json, per league
    injury_file,     \* cache/<league>_injuries.json, per league
    \* the run or call in progress
    net,             \* the HTTP requests issued so far in this run / call
    pc,              \* where the run or call stands
    league,          \* the league being processed
    raise_at,        \* the statement an uncaught exception came from, or ""
    http_failed,     \* the requests of this run / call that failed
    runs,            \* how many runs / calls have been started
    \* generate_top_props_for_league
    events,          \* line 979
    games,           \* line 980
    teams_today,     \* lines 983-988
    team_map,        \* the value espn_team_map returned
    \* build_today_roster_index and fetch_espn_injuries
    use_cache,       \* the use_cache argument
    todo,            \* the teams the for loop has not visited yet
    cached,          \* build_today_roster_index: cached (lines 330-336)
    roster_index,    \* {abbr: set(playerNames)}
    player_to_team,  \* {playerName: abbr}
    player_to_athlete_id,
    injured,         \* fetch_espn_injuries: injured
    status,          \* fetch_espn_injuries: status
    team_counts,     \* fetch_espn_injuries: team_counts
    \* history of the call in progress, kept for the properties
    got,             \* abbr -> the roster_list (the injury list) the loop got for it
    fetch_failed,    \* the abbrs whose roster request raised
    asof,            \* the UTC days the returned data left the provider
    warm,            \* at the call: every team asked for was in the caches
    \* the per-game loop of generate_top_props_for_league
    keep_top,        \* the keep_top argument
    gi,              \* the position in games of the game the for loop visits next
    picks,           \* line 1005; the returned list once the loop is over
    visited,         \* history: what the loop did with each event it visited
    \* one call of a function of the scoring pipeline, taken alone
    arg,             \* the function called and its arguments
    result           \* the value the call returned

envVars == <<ODDS_API_KEY, day, teammap_file, roster_file, injury_file>>
callVars == <<net, pc, league, raise_at, http_failed, runs>>
leagueVars == <<events, games, teams_today, team_map>>
indexVars == <<use_cache, todo, cached, roster_index, player_to_team,
               player_to_athlete_id, got, fetch_failed, warm>>
injuryVars == <<injured, status, team_counts>>

loopVars == <<keep_top, gi, picks, visited>>
fnVars == <<arg, result>>

vars == <<envVars, callVars, leagueVars, indexVars, injuryVars, asof, loopVars,
          fnVars>>

---------------------------------------------------------------------------
(* Bounds of the model.                                                    *)

MaxDay == 2
MaxRuns == 2
MaxCalls == 2
\* The outcomes of a body handed to parse_player_prop_lines alone.
MaxOutcomes == 3
\* The pieces of text a file handed to update_dashboard.py is made of.
MaxPieces == 3

---------------------------------------------------------------------------
(* Values.                                                                 *)

Leagues == {"nba", "nfl"}

\* A cache file is absent, unreadable (json.load raises), or holds what the
\* program wrote: the data and, as the file's modification day, the UTC day
\* of the write.
Absent == [kind |-> "absent"]
Corrupt == [kind |-> "corrupt"]
FileOf(data, d) == [kind |-> "json", data |-> data, written |-> d]

\* The empty dict.
EmptyMap == [x \in {} |-> ""]

\* d with d[k] = v (assignment: an existing key is overwritten).
Put(d, k, v) == [x \in DOMAIN d \cup {k} |-> IF x = k THEN v ELSE d[x]]

\* The set of elements of a sequence.
Range(s) == {s[i] : i \in 1..Len(s)}

---------------------------------------------------------------------------
(* The providers' data, as far as the model draws it.                      *)

\* ESPN's team list of a league: displayName, id, abbreviation.
EspnTeams(lg) ==
    IF lg = "nba"
    THEN << [displayName |-> "Los Angeles Lakers", id |-> "13", abbreviation |-> "LAL"],
            [displayName |-> "Golden State Warriors", id |-> "9", abbreviation |-> "GS"] >>
    ELSE << [displayName |-> "Miami Dolphins", id |-> "15", abbreviation |-> "MIA"],
            [displayName |-> "Buffalo Bills", id |-> "2", abbreviation |-> "BUF"] >>

\* A team the odds provider lists and ESPN's list does not carry under that
\* display name.
OtherTeam(lg) == IF lg = "nba" THEN "LA Clippers" ELSE "Washington"

\* What the team-list request can answer: an exception (timeout, refused
\* connection, HTTP error status), a body without "sports", or the
\* league's teams.
TeamListResponses(lg) ==
    { [kind |-> "exc"],
      [kind |-> "json", teams |-> << >>],
      [kind |-> "json", teams |-> EspnTeams(lg)] }

\* The events the odds provider lists: id, home_team, away_team.
Event(i, h, a) == [id |-> i, home_team |-> h, away_team |-> a]

EventLists(lg) ==
    LET t == EspnTeams(lg) IN
    { << >>,
      << Event("e1", t[1].displayName, t[2].displayName) >>,
      << Event("e1", t[1].displayName, OtherTeam(lg)),
         Event("e2", OtherTeam(lg), t[2].displayName) >>,
      \* an event without id and without away_team
      << Event("", t[1].displayName, ""),
         Event("e2", t[2].displayName, t[1].displayName) >> }

\* What the events request can answer: an exception raised by requests.get
\* or by .json(), a JSON object (the provider's error body, which
\* oddsapi_get_events returns as it is: there is no raise_for_status), or a
\* list of events.
EventsResponses(lg) ==
    { [kind |-> "exc"], [kind |-> "errdict"] } \cup
    { [kind |-> "list", events |-> l] : l \in EventLists(lg) }

---------------------------------------------------------------------------
(* The Odds API functions.                                                 *)

\* The test both require_api_key and main apply to the key.
KeyMissing_NeverRaises(key) == FALSE

KeyMissing(key) == key = ""

\* An HTTP request, as logged in net.
Request(to, what, lg, key) == [to |-> to, what |-> what, league |-> lg, key |-> key]

\* build_games_from_events over a list of events.
build_games_from_events(evs) ==
    [i \in 1..Len(evs) |->
        [id |-> evs[i].id, home_team |-> evs[i].home_team,
         away_team |-> evs[i].away_team]]

\* Lines 983-988: the display names of the teams playing today.
TeamsToday(gs) ==
    {gs[i].home_team : i \in {j \in 1..Len(gs) : gs[j].home_team # ""}} \cup
    {gs[i].away_team : i \in {j \in 1..Len(gs) : gs[j].away_team # ""}}

---------------------------------------------------------------------------
(* ESPN: the team map.                                                     *)

\* Lines 268-279: the dict built from a team-list body; a display name met
\* twice keeps the later entry.
RECURSIVE ParseTeamList(_)
ParseTeamList(teams) ==
    IF teams = << >> THEN EmptyMap
    ELSE LET n == Len(teams)
             t == teams[n]
         IN Put(ParseTeamList(SubSeq(teams, 1, n - 1)), t.displayName,
                [id |-> t.id, abbr |-> t.abbreviation])

\* Lines 256-261: the cache file answers when use_cache is set, the file
\* exists and json.load succeeds.
TeamMapCacheHit(uc, file) == uc /\ file.kind = "json"

\* espn_team_map(league, use_cache=uc) against the cache file `file` on UTC day
\* `d`, with `resp` the answer to its request if it sends one. The result:
\* whether it raised, the value returned, the file afterwards, the requests
\* sent and the day the returned data came from the provider.
espn_team_map(lg, uc, file, resp, d) ==
    IF TeamMapCacheHit(uc, file)
    THEN [raised |-> FALSE, out |-> file.data, file |-> file, sent |-> << >>,
          asof |-> file.written]
    ELSE LET req == Request("espn", "teams", lg, "") IN
         IF resp.kind = "exc"
         THEN [raised |-> TRUE, out |-> EmptyMap, file |-> file,
               sent |-> <<req>>, asof |-> d]
         ELSE IF resp.teams = << >>
         \* lines 269-274: return out before the cache is written
         THEN [raised |-> FALSE, out |-> EmptyMap, file |-> file,
               sent |-> <<req>>, asof |-> d]
         ELSE LET out == ParseTeamList(resp.teams) IN
              [raised |-> FALSE, out |-> out, file |-> FileOf(out, d),
               sent |-> <<req>>, asof |-> d]


---------------------------------------------------------------------------
(* Text. A string the code takes apart (a player name, a status text) is a *)
(* sequence of one-character strings.                                      *)

UpperAlpha == << "A", "B", "C", "D", "E", "F", "G", "H", "I", "J", "K", "L", "M",
                 "N", "O", "P", "Q", "R", "S", "T", "U", "V", "W", "X", "Y", "Z" >>
LowerAlpha == << "a", "b", "c", "d", "e", "f", "g", "h", "i", "j", "k", "l", "m",
                 "n", "o", "p", "q", "r", "s", "t", "u", "v", "w", "x", "y", "z" >>

\* str.upper and str.lower, character by character.
UpperChar(c) ==
    IF \E i \in 1..Len(LowerAlpha) : LowerAlpha[i] = c
    THEN UpperAlpha[CHOOSE i \in 1..Len(LowerAlpha) : LowerAlpha[i] = c]
    ELSE c
LowerChar(c) ==
    IF \E i \in 1..Len(UpperAlpha) : UpperAlpha[i] = c
    THEN LowerAlpha[CHOOSE i \in 1..Len(UpperAlpha) : UpperAlpha[i] = c]
    ELSE c
Upper(s) == [i \in 1..Len(s) |-> UpperChar(s[i])]
Lower(s) == [i \in 1..Len(s) |-> LowerChar(s[i])]

\* str.strip that takes one blank at most from each end.
Strip_Once(s) ==
    LET t == IF s # << >> /\ Head(s) = " " THEN Tail(s) ELSE s
    IN IF t # << >> /\ t[Len(t)] = " " THEN SubSeq(t, 1, Len(t) - 1) ELSE t

\* str.strip: leading and trailing blanks removed.
RECURSIVE Strip(_)
Strip(s) ==
    IF s = << >> THEN s
    ELSE IF Head(s) = " " THEN Strip(Tail(s))
    ELSE IF s[Len(s)] = " " THEN Strip(SubSeq(s, 1, Len(s) - 1))
    ELSE s

\* `sub in s` for strings.
Contains(s, sub) ==
    \E i \in 0..(Len(s) - Len(sub)) : SubSeq(s, i + 1, i + Len(sub)) = sub

\* The player names of the model. ESPN and the odds feed spell some players
\* differently (initials with and without periods, a hyphen or a blank).
N_LJ == << "L", " ", "J" >>                       \* a player with a static profile
N_JW == << "J", " ", "W" >>                       \* a name two teams carry
N_PJ == << "P", ".", "J", ".", " ", "W" >>        \* as ESPN spells it
N_PJ_Odds == << "P", "J", " ", "W" >>             \* as the odds feed spells it
N_SGA == << "S", " ", "G", "-", "A" >>            \* "Shai Gilgeous-Alexander"
N_SGA_Blank == << "S", " ", "G", " ", "A" >>      \* "Shai Gilgeous Alexander"
N_JA == << "J", " ", "A" >>                       \* "Josh Allen"
N_TK == << "T", " ", "K" >>                       \* "Travis Kelce"
N_PM == << "P", " ", "M" >>                       \* "Patrick Mahomes"
N_KD == << "K", " ", "D" >>                       \* "Kevin Durant"
NoName == << >>                                   \* a missing or empty name

---------------------------------------------------------------------------
(* ESPN: rosters.                                                          *)

Athlete(n, i) == [displayName |-> n, id |-> i]
Group(items) == [items |-> items]

\* The "athletes" of the roster endpoint for a team id on a UTC day: a list
\* of athletes, or of position groups with "items". One Lakers player has
\* left the roster by day 2.
EspnRosterBody(lg, tid, d) ==
    CASE tid = "13" -> IF d <= 1 THEN << Athlete(N_LJ, "1966"), Athlete(N_JW, "4432") >>
                       ELSE << Athlete(N_LJ, "1966") >>
      [] tid = "9"  -> << Group(<< Athlete(N_PJ, "4278"), Athlete(N_JW, "4593"),
                                   Athlete(N_KD, "3202") >>),
                          Group(<< Athlete(NoName, "77"), Athlete(N_SGA, "") >>) >>
      [] tid = "15" -> << Athlete(N_TK, "15847") >>
      [] tid = "2"  -> << Group(<< Athlete(N_JA, "39189"), Athlete(N_TK, "30123") >>) >>
      [] OTHER -> << >>

\* What a roster request can answer.
RosterResponses(lg, tid, d) ==
    { [kind |-> "exc"], [kind |-> "json", athletes |-> EspnRosterBody(lg, tid, d)] }

Player(n, i) == [name |-> n, athlete_id |-> i]

\* Lines 307-311: the athletes of a group's items that have a name and an id.
RECURSIVE RosterItems(_)
RosterItems(items) ==
    IF items = << >> THEN << >>
    ELSE LET a == Head(items) IN
         (IF a.displayName # NoName /\ a.id # ""
          THEN << Player(a.displayName, a.id) >> ELSE << >>)
         \o RosterItems(Tail(items))

\* espn_team_roster, lines 299-314, over the body's "athletes".
RECURSIVE espn_team_roster(_)
espn_team_roster(roster) ==
    IF roster = << >> THEN << >>
    ELSE LET g == Head(roster) IN
         (IF "items" \in DOMAIN g THEN RosterItems(g.items)
          ELSE IF g.displayName # NoName /\ g.id # ""
               THEN << Player(g.displayName, g.id) >>
               ELSE << >>)
         \o espn_team_roster(Tail(roster))

\* Lines 351-353 with the cache never consulted.
RosterCacheHit_Never(uc, cache, abbr) == FALSE

\* Lines 351-353: the cached roster of abbr, when there is one to use.
RosterCacheHit(uc, cache, abbr) == uc /\ abbr \in DOMAIN cache

\* Lines 351-359 with the try removed: a failed roster request leaves the
\* function as an exception.
RosterListOf_NoTry(uc, cache, abbr, resp) ==
    IF RosterCacheHit(uc, cache, abbr)
    THEN [raised |-> FALSE, fetched |-> FALSE, roster_list |-> cache[abbr].players]
    ELSE IF resp.kind = "exc"
    THEN [raised |-> TRUE, fetched |-> TRUE, roster_list |-> << >>]
    ELSE [raised |-> FALSE, fetched |-> TRUE,
          roster_list |-> espn_team_roster(resp.athletes)]

\* Lines 351-359: the roster_list of abbr: the cached one, or the parsed
\* answer of a request, or [] when the request raised (the except of line
\* 358). `resp` is the answer the request gets if it is sent.
RosterListOf(uc, cache, abbr, resp) ==
    IF RosterCacheHit(uc, cache, abbr)
    THEN [raised |-> FALSE, fetched |-> FALSE, roster_list |-> cache[abbr].players]
    ELSE IF resp.kind = "exc"
    THEN [raised |-> FALSE, fetched |-> TRUE, roster_list |-> << >>]
    ELSE [raised |-> FALSE, fetched |-> TRUE,
          roster_list |-> espn_team_roster(resp.athletes)]

\* Lines 364-370: names.
RosterNames(roster_list) ==
    {roster_list[i].name : i \in {j \in 1..Len(roster_list) : roster_list[j].name # NoName}}

\* Line 371: player_to_team[nm] = abbr.
AssignTeam(p2t, nm, abbr) == Put(p2t, nm, abbr)

\* Lines 365-371 over a roster_list: player_to_team afterwards.
RECURSIVE TeamsAfterRoster(_, _, _)
TeamsAfterRoster(p2t, roster_list, abbr) ==
    IF roster_list = << >> THEN p2t
    ELSE LET p == Head(roster_list) IN
         TeamsAfterRoster(IF p.name = NoName THEN p2t ELSE AssignTeam(p2t, p.name, abbr),
                          Tail(roster_list), abbr)

\* Lines 365-373 over a roster_list: player_to_athlete_id afterwards.
RECURSIVE IdsAfterRoster(_, _)
IdsAfterRoster(p2a, roster_list) ==
    IF roster_list = << >> THEN p2a
    ELSE LET p == Head(roster_list) IN
         IdsAfterRoster(IF p.name = NoName \/ p.athlete_id = "" THEN p2a
                        ELSE Put(p2a, p.name, p.athlete_id),
                        Tail(roster_list))

---------------------------------------------------------------------------
(* ESPN: injuries.                                                         *)

S_Out == << "O", "u", "t" >>
S_Doubtful == << "D", "o", "u", "b", "t", "f", "u", "l" >>
S_DayToDay == << "D", "a", "y", "-", "T", "o", "-", "D", "a", "y" >>
S_Suspended == << "S", "u", "s", "p", "e", "n", "d", "e", "d" >>

\* Line 434: the words that mark a player as not playing.
UnavailableWords ==
    { << "O", "U", "T" >>,
      << "I", "N", "A", "C", "T", "I", "V", "E" >>,
      << "D", "O", "U", "B", "T", "F", "U", "L" >>,
      << "D", "N", "P" >>,
      << "I", "R" >> }

\* An entry of a team's injury list: the athlete's displayName and the
\* status, which the endpoint gives as an object with a "name", as a plain
\* string, or not at all.
Inj(n, form, text) == [athlete |-> n, status |-> [form |-> form, text |-> text]]

\* The injury list of a team id on a UTC day. The Lakers' injured player is
\* back on day 2.
InjuryBody(lg, tid, d) ==
    CASE tid = "13" -> IF d <= 1
                       THEN << Inj(N_LJ, "dict", S_Out), Inj(N_JW, "dict", S_DayToDay) >>
                       ELSE << Inj(N_JW, "dict", S_DayToDay) >>
      [] tid = "9"  -> << Inj(N_PJ, "dict", S_Doubtful), Inj(NoName, "dict", S_Out),
                          Inj(N_SGA, "dict", S_Suspended),
                          Inj(N_JW, "str", S_Out), Inj(N_JW, "dict", S_Out) >>
      [] tid = "15" -> << Inj(N_TK, "dict", S_Out) >>
      [] tid = "2"  -> << Inj(N_JA, "none", << >>) >>
      [] OTHER -> << >>

InjuryResponses(lg, tid, d) ==
    { [kind |-> "exc"], [kind |-> "json", injuries |-> InjuryBody(lg, tid, d)] }

\* Line 434: any(x in st_upper for x in [...]).
IsUnavailable(st) == \E w \in UnavailableWords : Contains(Upper(st), w)

\* Line 438: team_counts[abbr] = team_counts.get(abbr, 0) + 1.
CountUp(counts, abbr) ==
    Put(counts, abbr, (IF abbr \in DOMAIN counts THEN counts[abbr] ELSE 0) + 1)

\* Lines 427-438 over one team's injury list, from the values acc =
\* [injured, status, team_counts]. An entry whose status is a plain string
\* makes inj.get("status", {}).get("name") raise AttributeError, which the
\* except of line 439 turns into `continue`: the rest of the list is dropped.
RECURSIVE InjuriesAfterList(_, _, _)
InjuriesAfterList(acc, inj_list, abbr) ==
    IF inj_list = << >> THEN acc
    ELSE LET inj == Head(inj_list)
             name == inj.athlete
             st == IF inj.status.form = "dict" THEN inj.status.text ELSE << >>
         IN IF inj.status.form = "str" THEN acc
            ELSE InjuriesAfterList(
                    IF IsUnavailable(st) /\ name # NoName
                    THEN [injured |-> acc.injured \cup {name},
                          status |-> Put(acc.status, name, [status |-> st, team |-> abbr]),
                          team_counts |-> CountUp(acc.team_counts, abbr)]
                    ELSE acc,
                    Tail(inj_list), abbr)

\* Lines 396-405: the cache file answers when use_cache is set, the file
\* exists and json.load succeeds.
InjuryCacheHit(uc, file) == uc /\ file.kind = "json"

\* team_map.items() goes through the dict in insertion order, the order of
\* ESPN's team list: the first team of that order still to visit.
NextTeamOf(lg, names) ==
    LET t == EspnTeams(lg)
        i == CHOOSE j \in 1..Len(t) :
                /\ t[j].displayName \in names
                /\ \A k \in 1..(j - 1) : t[k].displayName \notin names
    IN t[i].displayName

---------------------------------------------------------------------------
(* SpecEspn: build_today_roster_index and fetch_espn_injuries, called over *)
(* several UTC days.                                                       *)

\* The values a call starts from (and a run of main before it reaches them).
NoLeagueState ==
    /\ events = << >>
    /\ games = << >>
    /\ team_map = EmptyMap
NoIndexState ==
    /\ use_cache = TRUE
    /\ todo = {}
    /\ cached = EmptyMap
    /\ roster_index = EmptyMap
    /\ player_to_team = EmptyMap
    /\ player_to_athlete_id = EmptyMap
    /\ got = EmptyMap
    /\ fetch_failed = {}
    /\ warm = FALSE
NoInjuryState ==
    /\ injured = {}
    /\ status = EmptyMap
    /\ team_counts = EmptyMap
NoLoopState ==
    /\ keep_top = 8
    /\ gi = 1
    /\ picks = << >>
    /\ visited = << >>
NoFnState ==
    /\ arg = [fn |-> ""]
    /\ result = [fn |-> ""]

\* The team_display_names a caller passes: two teams that share a player
\* name, or a team with one ESPN's list does not carry.
TeamSets(lg) ==
    LET t == EspnTeams(lg) IN
    { {t[1].displayName, t[2].displayName},
      {t[2].displayName, OtherTeam(lg)} }

\* The league the calls are made for. The other league differs in the URLs
\* and in the names of the cache files only.
EspnLeagues == {"nba"}

Idle == pc \in {"idle", "build_returned", "inj_returned", "raised"}

EspnInit ==
    /\ ODDS_API_KEY = "k"
    /\ day = 1
    /\ \E f \in {Absent, Corrupt} :
        /\ teammap_file = [lg \in Leagues |-> f]
        /\ roster_file = [lg \in Leagues |-> f]
        /\ injury_file = [lg \in Leagues |-> f]
    /\ net = << >>
    /\ pc = "idle"
    /\ league = "nba"
    /\ raise_at = ""
    /\ http_failed = {}
    /\ runs = 0
    /\ teams_today = {}
    /\ asof = {}
    /\ NoLeagueState
    /\ NoIndexState
    /\ NoInjuryState
    /\ NoLoopState
    /\ NoFnState

\* build_today_roster_index, lines 324-340: the team map, the roster cache
\* file and the empty tables.
BuildStart ==
    /\ Idle
    /\ UNCHANGED <<loopVars, fnVars>>
    /\ runs < MaxCalls
    /\ \E lg \in EspnLeagues : \E teams \in TeamSets(lg), uc \in BOOLEAN,
                              resp \in TeamListResponses(lg) :
        LET r == espn_team_map(lg, uc, teammap_file[lg], resp, day)
            rf == roster_file[lg]
        IN
        /\ league' = lg
        /\ teams_today' = teams
        /\ use_cache' = uc
        /\ net' = r.sent
        /\ teammap_file' = [teammap_file EXCEPT ![lg] = r.file]
        /\ team_map' = r.out
        /\ asof' = IF r.raised THEN {} ELSE {r.asof}
        /\ pc' = IF r.raised THEN "raised" ELSE "build_loop"
        /\ raise_at' = IF r.raised THEN "espn_team_map:266" ELSE ""
        /\ http_failed' = IF r.raised THEN {"teams"} ELSE {}
        /\ todo' = IF r.raised THEN {} ELSE teams
        /\ cached' = IF ~r.raised /\ uc /\ rf.kind = "json" THEN rf.data ELSE EmptyMap
        /\ warm' = /\ uc
                   /\ teammap_file[lg].kind = "json"
                   /\ rf.kind = "json"
                   /\ \A t \in teams :
                        /\ t \in DOMAIN teammap_file[lg].data
                        /\ teammap_file[lg].data[t].abbr \in DOMAIN rf.data
    /\ runs' = runs + 1
    /\ roster_index' = EmptyMap
    /\ player_to_team' = EmptyMap
    /\ player_to_athlete_id' = EmptyMap
    /\ got' = EmptyMap
    /\ fetch_failed' = {}
    /\ injured' = {}
    /\ status' = EmptyMap
    /\ team_counts' = EmptyMap
    /\ UNCHANGED <<ODDS_API_KEY, day, roster_file, injury_file, events, games>>

\* build_today_roster_index, lines 342-375: one pass of the for loop. The
\* argument is a set: the loop meets its teams in any order.
BuildTeam ==
    /\ pc = "build_loop"
    /\ UNCHANGED <<loopVars, fnVars>>
    /\ \E team_name \in todo :
        IF \/ team_name \notin DOMAIN team_map
           \/ team_map[team_name].abbr = ""
           \/ team_map[team_name].id = ""
        THEN /\ todo' = todo \ {team_name}
             /\ UNCHANGED <<net, pc, raise_at, http_failed, cached, roster_index,
                            player_to_team, player_to_athlete_id, got, fetch_failed,
                            asof>>
        ELSE LET abbr == team_map[team_name].abbr
                 tid == team_map[team_name].id
             IN \E resp \in RosterResponses(league, tid, day) :
                 LET r == RosterListOf(use_cache, cached, abbr, resp)
                     failed == r.fetched /\ resp.kind = "exc"
                 IN
                 /\ net' = IF r.fetched
                           THEN Append(net, Request("espn", "roster", league, ""))
                           ELSE net
                 /\ http_failed' = IF failed THEN http_failed \cup {"roster"}
                                   ELSE http_failed
                 /\ fetch_failed' = IF failed THEN fetch_failed \cup {abbr}
                                    ELSE fetch_failed
                 /\ IF r.raised
                    THEN /\ pc' = "raised"
                         /\ raise_at' = "espn_team_roster:298"
                         /\ UNCHANGED <<todo, cached, roster_index, player_to_team,
                                        player_to_athlete_id, got, asof>>
                    ELSE /\ todo' = todo \ {team_name}
                         /\ cached' = IF r.fetched
                                      THEN Put(cached, abbr, [updated |-> day,
                                                             players |-> r.roster_list])
                                      ELSE cached
                         /\ asof' = asof \cup {IF r.fetched THEN day
                                               ELSE cached[abbr].updated}
                         /\ got' = Put(got, abbr, r.roster_list)
                         /\ roster_index' = Put(roster_index, abbr,
                                                RosterNames(r.roster_list))
                         /\ player_to_team' = TeamsAfterRoster(player_to_team,
                                                               r.roster_list, abbr)
                         /\ player_to_athlete_id' = IdsAfterRoster(player_to_athlete_id,
                                                                   r.roster_list)
                         /\ UNCHANGED <<pc, raise_at>>
    /\ UNCHANGED <<envVars, league, runs, leagueVars, use_cache, warm, injuryVars>>

\* build_today_roster_index, lines 377-384: the cache file is rewritten and
\* the tables are returned.
BuildSave ==
    /\ pc = "build_loop"
    /\ UNCHANGED <<loopVars, fnVars>>
    /\ todo = {}
    /\ roster_file' = [roster_file EXCEPT ![league] = FileOf(cached, day)]
    /\ pc' = "build_returned"
    /\ UNCHANGED <<ODDS_API_KEY, day, teammap_file, injury_file, net, league,
                   raise_at, http_failed, runs, leagueVars, indexVars, injuryVars,
                   asof>>

\* fetch_espn_injuries, lines 393-411: the cached blob, or the team map
\* (always through its cache) and the empty results.
InjuriesStart ==
    /\ Idle
    /\ UNCHANGED <<loopVars, fnVars>>
    /\ runs < MaxCalls
    /\ \E lg \in EspnLeagues : \E uc \in BOOLEAN, resp \in TeamListResponses(lg) :
        /\ league' = lg
        /\ use_cache' = uc
        /\ warm' = (uc /\ injury_file[lg].kind = "json")
        /\ IF InjuryCacheHit(uc, injury_file[lg])
           THEN /\ injured' = injury_file[lg].data.injured
                /\ status' = injury_file[lg].data.status
                /\ team_counts' = injury_file[lg].data.team_counts
                /\ asof' = {injury_file[lg].written}
                /\ net' = << >>
                /\ pc' = "inj_returned"
                /\ raise_at' = ""
                /\ http_failed' = {}
                /\ todo' = {}
                /\ team_map' = EmptyMap
                /\ UNCHANGED teammap_file
           ELSE LET r == espn_team_map(lg, TRUE, teammap_file[lg], resp, day) IN
                /\ injured' = {}
                /\ status' = EmptyMap
                /\ team_counts' = EmptyMap
                /\ net' = r.sent
                /\ teammap_file' = [teammap_file EXCEPT ![lg] = r.file]
                /\ team_map' = r.out
                /\ asof' = IF r.raised THEN {} ELSE {r.asof}
                /\ pc' = IF r.raised THEN "raised" ELSE "inj_loop"
                /\ raise_at' = IF r.raised THEN "espn_team_map:266" ELSE ""
                /\ http_failed' = IF r.raised THEN {"teams"} ELSE {}
                /\ todo' = IF r.raised THEN {} ELSE DOMAIN r.out
    /\ runs' = runs + 1
    /\ teams_today' = {}
    /\ cached' = EmptyMap
    /\ roster_index' = EmptyMap
    /\ player_to_team' = EmptyMap
    /\ player_to_athlete_id' = EmptyMap
    /\ got' = EmptyMap
    /\ fetch_failed' = {}
    /\ UNCHANGED <<ODDS_API_KEY, day, roster_file, injury_file, events, games>>

\* fetch_espn_injuries, lines 413-440: one pass of the for loop.
InjuriesTeam ==
    /\ pc = "inj_loop"
    /\ UNCHANGED <<loopVars, fnVars>>
    /\ todo # {}
    /\ LET team_name == NextTeamOf(league, todo)
           tid == team_map[team_name].id
           abbr == team_map[team_name].abbr
       IN
       /\ todo' = todo \ {team_name}
       /\ IF tid = "" \/ abbr = ""
          THEN UNCHANGED <<net, http_failed, injuryVars, asof, got>>
          ELSE \E resp \in InjuryResponses(league, tid, day) :
                LET acc == IF resp.kind = "exc"
                           THEN [injured |-> injured, status |-> status,
                                 team_counts |-> team_counts]
                           ELSE InjuriesAfterList(
                                    [injured |-> injured, status |-> status,
                                     team_counts |-> team_counts],
                                    resp.injuries, abbr)
                IN
                /\ net' = Append(net, Request("espn", "injuries", league, ""))
                /\ http_failed' = IF resp.kind = "exc"
                                  THEN http_failed \cup {"injuries"} ELSE http_failed
                /\ injured' = acc.injured
                /\ status' = acc.status
                /\ team_counts' = acc.team_counts
                /\ asof' = asof \cup {day}
                /\ got' = IF resp.kind = "exc" THEN got
                          ELSE Put(got, abbr, resp.injuries)
    /\ UNCHANGED <<envVars, pc, league, raise_at, runs, leagueVars, use_cache,
                   cached, roster_index, player_to_team, player_to_athlete_id,
                   fetch_failed, warm>>

\* fetch_espn_injuries, lines 442-455: the cache file is written and the
\* results are returned.
InjuriesSave ==
    /\ pc = "inj_loop"
    /\ UNCHANGED <<loopVars, fnVars>>
    /\ todo = {}
    /\ injury_file' = [injury_file EXCEPT ![league] =
                          FileOf([injured |-> injured, status |-> status,
                                  team_counts |-> team_counts], day)]
    /\ pc' = "inj_returned"
    /\ UNCHANGED <<ODDS_API_KEY, day, teammap_file, roster_file, net, league,
                   raise_at, http_failed, runs, leagueVars, indexVars, injuryVars,
                   asof>>

\* Midnight UTC passes between two calls.
NextDay ==
    /\ Idle
    /\ UNCHANGED <<loopVars, fnVars>>
    /\ day < MaxDay
    /\ day' = day + 1
    /\ pc' = "idle"
    /\ UNCHANGED <<ODDS_API_KEY, teammap_file, roster_file, injury_file, net,
                   league, raise_at, http_failed, runs, leagueVars, indexVars,
                   injuryVars, asof>>

EspnNext ==
    \/ BuildStart
    \/ BuildTeam
    \/ BuildSave
    \/ InjuriesStart
    \/ InjuriesTeam
    \/ InjuriesSave
    \/ NextDay

SpecEspn == EspnInit /\ [][EspnNext]_vars

---------------------------------------------------------------------------
(* Spec: a run of main().                                                  *)

RunInit ==
    /\ ODDS_API_KEY \in {"", "k"}
    /\ day = 1
    /\ teammap_file \in [Leagues -> {Absent, Corrupt}]
    /\ roster_file = [lg \in Leagues |-> Absent]
    /\ injury_file = [lg \in Leagues |-> Absent]
    /\ net = << >>
    /\ pc = "main"
    /\ league = "nba"
    /\ raise_at = ""
    /\ http_failed = {}
    /\ runs = 1
    /\ teams_today = {}
    /\ asof = {}
    /\ NoLeagueState
    /\ NoIndexState
    /\ NoInjuryState
    /\ NoLoopState
    /\ NoFnState

\* main, lines 1468-1475: the key check, then the first league.
MainCheckKey ==
    /\ pc = "main"
    /\ UNCHANGED <<loopVars, fnVars>>
    /\ IF KeyMissing(ODDS_API_KEY)
       THEN /\ pc' = "raised"
            /\ raise_at' = "main:1472"
       ELSE /\ pc' = "events"
            /\ raise_at' = ""
    /\ league' = "nba"
    /\ UNCHANGED <<envVars, net, http_failed, runs, leagueVars, indexVars,
                   injuryVars, asof>>

\* generate_top_props_for_league, lines 978-988: oddsapi_get_events (with
\* its require_api_key), build_games_from_events and teams_today.
GetEvents ==
    /\ pc = "events"
    /\ UNCHANGED <<loopVars, fnVars>>
    /\ \E resp \in EventsResponses(league) :
        IF KeyMissing(ODDS_API_KEY)
        THEN /\ pc' = "raised"
             /\ raise_at' = "require_api_key:463"
             /\ UNCHANGED <<net, events, games, teams_today, http_failed>>
        ELSE /\ net' = Append(net, Request("odds", "events", league, ODDS_API_KEY))
             /\ CASE resp.kind = "exc" ->
                       /\ pc' = "raised"
                       /\ raise_at' = "oddsapi_get_events:472"
                       /\ http_failed' = http_failed \cup {"events"}
                       /\ UNCHANGED <<events, games, teams_today>>
                  [] resp.kind = "errdict" ->
                       \* iterating a dict yields its keys: e.get raises
                       /\ pc' = "raised"
                       /\ raise_at' = "build_games_from_events:494"
                       /\ http_failed' = http_failed \cup {"events"}
                       /\ UNCHANGED <<events, games, teams_today>>
                  [] OTHER ->
                       /\ events' = resp.events
                       /\ games' = build_games_from_events(resp.events)
                       /\ teams_today' = TeamsToday(build_games_from_events(resp.events))
                       /\ pc' = "teammap"
                       /\ UNCHANGED <<raise_at, http_failed>>
    /\ UNCHANGED <<envVars, league, runs, team_map, indexVars, injuryVars, asof>>

\* generate_top_props_for_league, line 992: espn_team_map(league, True).
\* The call is outside any try: its exception leaves main.
GetTeamMap ==
    /\ pc = "teammap"
    /\ UNCHANGED <<loopVars, fnVars>>
    /\ \E resp \in TeamListResponses(league) :
        LET r == espn_team_map(league, TRUE, teammap_file[league], resp, day) IN
        /\ net' = net \o r.sent
        /\ teammap_file' = [teammap_file EXCEPT ![league] = r.file]
        /\ IF r.raised
           THEN /\ pc' = "raised"
                /\ raise_at' = "espn_team_map:266"
                /\ http_failed' = http_failed \cup {"teams"}
                /\ UNCHANGED team_map
           ELSE /\ pc' = "abbrmap"
                /\ team_map' = r.out
                /\ UNCHANGED <<raise_at, http_failed>>
    /\ UNCHANGED <<ODDS_API_KEY, day, roster_file, injury_file, league, runs,
                   events, games, teams_today, indexVars, injuryVars, asof>>

\* generate_top_props_for_league, line 993: get_team_abbr_map(league). No
\* module-level name get_team_abbr_map exists (the file defines none and
\* imports none): evaluating the name raises NameError, outside any try.
GetTeamAbbrMap ==
    /\ pc = "abbrmap"
    /\ UNCHANGED <<loopVars, fnVars>>
    /\ pc' = "raised"
    /\ raise_at' = "generate_top_props_for_league:993"
    /\ UNCHANGED <<envVars, net, league, http_failed, runs, leagueVars,
                   indexVars, injuryVars, asof>>

\* The next scheduled run, the same or a later UTC day: a new process, which
\* reads the key again and finds the cache files of the earlier runs.
NextRun ==
    /\ pc = "raised"
    /\ UNCHANGED <<loopVars, fnVars>>
    /\ runs < MaxRuns
    /\ runs' = runs + 1
    /\ day' \in {d \in {day, day + 1} : d <= MaxDay}
    /\ ODDS_API_KEY' \in {"", "k"}
    /\ pc' = "main"
    /\ net' = << >>
    /\ events' = << >>
    /\ games' = << >>
    /\ teams_today' = {}
    /\ team_map' = EmptyMap
    /\ raise_at' = ""
    /\ http_failed' = {}
    /\ league' = "nba"
    /\ UNCHANGED <<teammap_file, roster_file, injury_file, indexVars, injuryVars,
                   asof>>

RunNext ==
    \/ MainCheckKey
    \/ GetEvents
    \/ GetTeamMap
    \/ GetTeamAbbrMap
    \/ NextRun

Spec == RunInit /\ [][RunNext]_vars

---------------------------------------------------------------------------
(* Numbers. The program computes in floats; the model computes in          *)
(* integers. A quantity (a line, a projection, a spread, a per-game        *)
(* average, a score) is held in thousandths; a multiplier and a            *)
(* probability are held in millionths. Divisions round down.               *)

Min(a, b) == IF a <= b THEN a ELSE b
Max(a, b) == IF a >= b THEN a ELSE b
Abs(a) == IF a >= 0 THEN a ELSE -a

\* Line 214.
clamp(x, lo, hi) == Max(lo, Min(hi, x))

\* proj *= m: a quantity times a multiplier, in two halves so that no
\* intermediate product leaves 32 bits.
Mul(x, m) == (x * (m \div 1000) + (x * (m % 1000)) \div 1000) \div 1000

\* A float or None.
NoNumber == [some |-> FALSE, v |-> 0]
Num(v) == [some |-> TRUE, v |-> v]

\* A JSON value that is neither a number nor null where a number is
\* expected, such as the string "N/A": not None, and float() raises
\* ValueError on it.
NotANumber == [some |-> TRUE, v |-> 0, text |-> "N/A"]
IsNumber(point) == "text" \notin DOMAIN point

\* 1 / (1 + exp(-z)) in millionths at z = 0, 1/8, 2/8, ..., 8.
SigmoidTable ==
    << 500000, 531209, 562177, 592667, 622459, 651355, 679179, 705785,
       731059, 754915, 777300, 798187, 817574, 835484, 851953, 867036,
       880797, 893309, 904651, 914901, 924142, 932453, 939913, 946597,
       952574, 957912, 962673, 966914, 970688, 974043, 977023, 979668,
       982014, 984094, 985936, 987568, 989013, 990292, 991423, 992423,
       993307, 994089, 994780, 995390, 995930, 996406, 996827, 997199,
       997527, 997817, 998073, 998299, 998499, 998675, 998830, 998968,
       999089, 999196, 999290, 999374, 999447, 999512, 999569, 999620,
       999665 >>

\* Line 217: sigmoid(z) for z in thousandths, by linear interpolation in the
\* table (within 0.0002 of the float) and flat beyond |z| = 8 (within
\* 0.0004); sigmoid(-z) = 1 - sigmoid(z).
sigmoid(z) ==
    LET a == Abs(z)
        k == a \div 125
        r == a % 125
        up == IF k >= 64 THEN SigmoidTable[65]
              ELSE SigmoidTable[k + 1]
                   + ((SigmoidTable[k + 2] - SigmoidTable[k + 1]) * r) \div 125
    IN IF z >= 0 THEN up ELSE 1000000 - up

\* sorted(pts)
RECURSIVE Insert(_, _)
Insert(x, s) ==
    IF s = << >> THEN << x >>
    ELSE IF x <= Head(s) THEN << x >> \o s
    ELSE << Head(s) >> \o Insert(x, Tail(s))

RECURSIVE Sorted(_)
Sorted(s) == IF s = << >> THEN << >> ELSE Insert(Head(s), Sorted(Tail(s)))

RECURSIVE Sum(_)
Sum(s) == IF s = << >> THEN 0 ELSE Head(s) + Sum(Tail(s))

\* statistics.median with the sort left out: the middle of the points in
\* the order they were quoted.
median_Unsorted(pts) ==
    LET n == Len(pts)
    IN IF n % 2 = 1 THEN pts[(n + 1) \div 2]
       ELSE (pts[n \div 2] + pts[n \div 2 + 1]) \div 2

\* statistics.median of a non-empty list.
median(pts) ==
    LET s == Sorted(pts)
        n == Len(s)
    IN IF n % 2 = 1 THEN s[(n + 1) \div 2]
       ELSE (s[n \div 2] + s[n \div 2 + 1]) \div 2

\* The integer square root of v: the largest r of lo..hi with r * r <= v, by
\* bisection.
RECURSIVE SqrtBetween(_, _, _)
SqrtBetween(v, lo, hi) ==
    IF lo >= hi THEN lo
    ELSE LET mid == (lo + hi + 1) \div 2 IN
         IF mid * mid <= v THEN SqrtBetween(v, mid, hi)
         ELSE SqrtBetween(v, lo, mid - 1)

ISqrt(v) == SqrtBetween(v, 0, Min(v, 46340))

\* statistics.pstdev of a list of two points or more: the root of the mean
\* squared distance to the mean, computed on the distances to the smallest
\* point.
pstdev(pts) ==
    LET s == Sorted(pts)
        n == Len(s)
        y == [i \in 1..n |-> s[i] - s[1]]
        sq == [i \in 1..n |-> y[i] * y[i]]
    IN ISqrt(n * Sum(sq) - Sum(y) * Sum(y)) \div n

---------------------------------------------------------------------------
(* The static tables, for the players and teams the model names.           *)

NoProfile == [x \in {} |-> 0]

\* Lines 38-79, the fields the scoring reads, in thousandths.
NBA_PLAYERS_DATA(player) ==
    CASE player = N_SGA ->
            [recent_ppg |-> 28200, recent_rpg |-> 4800, recent_apg |-> 7200,
             recent_3pm |-> 2100, recent_stl |-> 1400, recent_blk |-> 600,
             usage_rate |-> 31200, fgm |-> 10200, ft_rate |-> 280,
             per_minute |-> 1840]
      [] player = N_KD ->
            [recent_ppg |-> 29800, recent_rpg |-> 6200, recent_apg |-> 4500,
             recent_3pm |-> 2200, recent_stl |-> 900, recent_blk |-> 1300,
             usage_rate |-> 30500, fgm |-> 11000, ft_rate |-> 220,
             per_minute |-> 1920]
      [] player = N_LJ ->
            [recent_ppg |-> 24600, recent_rpg |-> 7800, recent_apg |-> 7200,
             recent_3pm |-> 1900, recent_stl |-> 1200, recent_blk |-> 500,
             usage_rate |-> 28100, fgm |-> 9100, ft_rate |-> 280,
             per_minute |-> 1680]
      [] OTHER -> NoProfile

\* Lines 81-106.
NFL_PLAYERS_DATA(player) ==
    CASE player = N_JA ->
            [recent_pass_yds |-> 278000, recent_pass_td |-> 2200,
             recent_int |-> 800, recent_rush_yds |-> 45000,
             weather_impact |-> 950]
      [] player = N_PM ->
            [recent_pass_yds |-> 285000, recent_pass_td |-> 2800,
             recent_int |-> 600, recent_rush_yds |-> 38000,
             weather_impact |-> 1000]
      [] player = N_TK ->
            [recent_rec |-> 7200, recent_rec_yds |-> 85000,
             recent_rec_td |-> 800, weather_impact |-> 1000]
      [] OTHER -> NoProfile

\* profile.get(key, default)
Field(profile, key, default) ==
    IF key \in DOMAIN profile THEN profile[key] ELSE default

\* profile.get(key, None)
FieldOrNone(profile, key) ==
    IF key \in DOMAIN profile THEN Num(profile[key]) ELSE NoNumber

\* Lines 108-114: OPPONENT_DEFENSE["nba"].get(opp_abbr, {}).get("pace_adjust", 1.0),
\* in millionths.
pace_adjust(opp_abbr) ==
    CASE opp_abbr = "LAL" -> 1020000
      [] opp_abbr = "GS" -> 1050000
      [] opp_abbr = "HOU" -> 1080000
      [] opp_abbr = "DEN" -> 980000
      [] OTHER -> 1000000

\* Lines 115-119: OPPONENT_DEFENSE["nfl"].get(opp_abbr, {}).get("pass_rank", 16).
pass_rank(opp_abbr) ==
    CASE opp_abbr = "MIA" -> 16
      [] opp_abbr = "BUF" -> 12
      [] opp_abbr = "KC" -> 14
      [] OTHER -> 16

run_rank(opp_abbr) ==
    CASE opp_abbr = "MIA" -> 8
      [] opp_abbr = "BUF" -> 5
      [] opp_abbr = "KC" -> 10
      [] OTHER -> 16

\* Lines 171-186 and 188-200: market_to_prop, "" for a market key the table
\* does not hold.
market_to_prop(lg, market_key) ==
    IF lg = "nba"
    THEN CASE market_key = "player_points" -> "points"
           [] market_key = "player_rebounds" -> "rebounds"
           [] market_key = "player_assists" -> "assists"
           [] market_key = "player_threes" -> "3_pointers"
           [] market_key = "player_blocks" -> "blocks"
           [] market_key = "player_steals" -> "steals"
           [] market_key = "player_blocks_steals" -> "stl_blk"
           [] market_key = "player_turnovers" -> "turnovers"
           [] market_key = "player_points_rebounds_assists" -> "pts_reb_ast"
           [] market_key = "player_points_rebounds" -> "pts_reb"
           [] market_key = "player_points_assists" -> "pts_ast"
           [] market_key = "player_rebounds_assists" -> "reb_ast"
           [] market_key = "player_field_goals" -> "field_goals"
           [] market_key = "player_frees_made" -> "free_throws"
           [] OTHER -> ""
    ELSE CASE market_key = "player_pass_yds" -> "pass_yards"
           [] market_key = "player_pass_tds" -> "pass_td"
           [] market_key = "player_pass_interceptions" -> "int"
           [] market_key = "player_rush_yds" -> "rush_yards"
           [] market_key = "player_rush_attempts" -> "carries"
           [] market_key = "player_receptions" -> "receptions"
           [] market_key = "player_reception_yds" -> "rec_yards"
           [] market_key = "player_reception_tds" -> "rec_td"
           [] market_key = "player_pass_rush_yds" -> "pass_rush_yards"
           [] market_key = "player_rush_reception_yds" -> "rush_rec_yards"
           [] market_key = "player_pass_rush_reception_yds" -> "pass_rush_rec_yards"
           [] OTHER -> ""

---------------------------------------------------------------------------
(* The script, blowout and garbage-time factors, in millionths.            *)

\* Lines 621-628; spread_abs is a float or None.
compute_blowout_risk(spread_abs) ==
    IF ~spread_abs.some THEN 250000
    ELSE clamp((spread_abs.v * 1000) \div 18, 0, 1000000)

\* Lines 630-644; is_favorite is a boolean here.
nba_game_script_multiplier(is_favorite, blowout_risk, is_star) ==
    IF is_star /\ is_favorite THEN 1000000 - blowout_risk \div 10
    ELSE IF is_star /\ ~is_favorite THEN 1000000 + (blowout_risk * 6) \div 100
    ELSE 1000000

\* Lines 646-664 with the two branches exchanged.
nfl_script_Exchanged(is_favorite, spread_abs) ==
    IF ~spread_abs.some THEN [pass_mult |-> 1000000, rush_mult |-> 1000000]
    ELSE LET x == clamp((spread_abs.v * 1000) \div 14, 0, 1000000) IN
         IF ~is_favorite
         THEN [pass_mult |-> 1000000 - x \div 10, rush_mult |-> 1000000 + x \div 10]
         ELSE [pass_mult |-> 1000000 + (x * 12) \div 100,
               rush_mult |-> 1000000 - (x * 8) \div 100]

\* Lines 646-664: [pass_mult, rush_mult].
nfl_script_adjustments(is_favorite, spread_abs) ==
    IF ~spread_abs.some THEN [pass_mult |-> 1000000, rush_mult |-> 1000000]
    ELSE LET x == clamp((spread_abs.v * 1000) \div 14, 0, 1000000) IN
         IF is_favorite
         THEN [pass_mult |-> 1000000 - x \div 10, rush_mult |-> 1000000 + x \div 10]
         ELSE [pass_mult |-> 1000000 + (x * 12) \div 100,
               rush_mult |-> 1000000 - (x * 8) \div 100]

\* Lines 666-674.
garbage_time_multiplier(blowout_risk, is_star) ==
    IF is_star THEN 1000000 - (blowout_risk * 6) \div 100
    ELSE 1000000 + (blowout_risk * 4) \div 100

---------------------------------------------------------------------------
(* The edge model: projection and score.                                   *)

\* Lines 680-748: a float or None.
projection_from_profile(profile, prop_type, lg) ==
    IF DOMAIN profile = {} THEN NoNumber
    ELSE IF lg = "nba" THEN
        CASE prop_type = "points" -> FieldOrNone(profile, "recent_ppg")
          [] prop_type = "rebounds" -> FieldOrNone(profile, "recent_rpg")
          [] prop_type = "assists" -> FieldOrNone(profile, "recent_apg")
          [] prop_type = "3_pointers" -> FieldOrNone(profile, "recent_3pm")
          [] prop_type = "steals" -> FieldOrNone(profile, "recent_stl")
          [] prop_type = "blocks" -> FieldOrNone(profile, "recent_blk")
          [] prop_type = "field_goals" -> FieldOrNone(profile, "fgm")
          [] prop_type = "free_throws" ->
                \* ((ppg * ft_rate) / 0.75) * 0.75
                Num((Field(profile, "recent_ppg", 0) * Field(profile, "ft_rate", 250))
                    \div 1000)
          [] prop_type = "pts_reb" ->
                Num(Field(profile, "recent_ppg", 0) + Field(profile, "recent_rpg", 0))
          [] prop_type = "pts_ast" ->
                Num(Field(profile, "recent_ppg", 0) + Field(profile, "recent_apg", 0))
          [] prop_type = "reb_ast" ->
                Num(Field(profile, "recent_rpg", 0) + Field(profile, "recent_apg", 0))
          [] prop_type = "pts_reb_ast" ->
                Num(Field(profile, "recent_ppg", 0) + Field(profile, "recent_rpg", 0)
                    + Field(profile, "recent_apg", 0))
          [] prop_type = "stl_blk" ->
                Num(Field(profile, "recent_stl", 0) + Field(profile, "recent_blk", 0))
          [] prop_type = "turnovers" ->
                Num(2500 + (Field(profile, "usage_rate", 25000) - 25000) \div 20)
          [] OTHER -> NoNumber
    ELSE
        CASE prop_type = "pass_yards" -> FieldOrNone(profile, "recent_pass_yds")
          [] prop_type = "pass_td" -> FieldOrNone(profile, "recent_pass_td")
          [] prop_type = "int" -> FieldOrNone(profile, "recent_int")
          [] prop_type = "rush_yards" -> FieldOrNone(profile, "recent_rush_yds")
          [] prop_type = "carries" ->
                IF "recent_rush_yds" \in DOMAIN profile
                THEN Num((profile["recent_rush_yds"] * 10) \div 45)
                ELSE NoNumber
          [] prop_type = "receptions" -> FieldOrNone(profile, "recent_rec")
          [] prop_type = "rec_yards" -> FieldOrNone(profile, "recent_rec_yds")
          [] prop_type = "rec_td" -> FieldOrNone(profile, "recent_rec_td")
          [] prop_type = "pass_rush_yards" ->
                Num(Field(profile, "recent_pass_yds", 0)
                    + Field(profile, "recent_rush_yds", 0))
          [] prop_type = "rush_rec_yards" ->
                Num(Field(profile, "recent_rush_yds", 0)
                    + Field(profile, "recent_rec_yds", 0))
          [] prop_type = "pass_rush_rec_yards" ->
                Num(Field(profile, "recent_pass_yds", 0)
                    + Field(profile, "recent_rush_yds", 0)
                    + Field(profile, "recent_rec_yds", 0))
          [] OTHER -> NoNumber

\* Lines 763-767: the "star" heuristic.
IsStar(profile) ==
    /\ DOMAIN profile # {}
    /\ \/ Field(profile, "usage_rate", 0) >= 28000
       \/ Field(profile, "per_minute", 0) >= 1750

\* Lines 790-792: 1 + (ft_rate_boost - 1) * 0.35 with ft_rate_boost = 1.15
\* (line 123), for the scoring props; 1 for the others.
FtBoost(prop_type) ==
    IF prop_type \in {"points", "pts_reb", "pts_ast", "pts_reb_ast",
                      "free_throws", "field_goals"}
    THEN 1000000 + ((1150000 - 1000000) * 35) \div 100
    ELSE 1000000

\* Lines 822-824: 1 + (dpi_rate - 0.25) * 0.25 with dpi_rate = 0.32 (line
\* 124), for the pass props; 1 for the others.
DpiBoost(prop_type) ==
    IF prop_type \in {"pass_yards", "receptions", "rec_yards"}
    THEN 1000000 + (320000 - 250000) \div 4
    ELSE 1000000

\* Lines 795-807: the script multiplier an NFL projection of prop_type is
\* multiplied by, in millionths; 1 for the props lines 802-807 do not name.
NflScriptMult(prop_type, fav, spread_abs) ==
    LET adj == IF fav # "None"
               THEN nfl_script_adjustments(fav = "True", spread_abs)
               ELSE [pass_mult |-> 1000000, rush_mult |-> 1000000]
    IN CASE prop_type = "pass_yards" -> adj.pass_mult
         [] prop_type = "pass_td" -> 1000000 + ((adj.pass_mult - 1000000) * 6) \div 10
         [] prop_type \in {"rush_yards", "carries"} -> adj.rush_mult
         [] OTHER -> 1000000

\* Lines 750-831, for a proj that is not None. ctx.is_favorite is "True",
\* "False" or "None".
apply_context_multipliers(proj, lg, prop_type, ctx, profile) ==
    LET opp_abbr == ctx.opponent_abbr
        fav == ctx.is_favorite
        blowout_risk == compute_blowout_risk(ctx.spread_abs)
        is_star == IsStar(profile)
        team_inj == ctx.team_inj_count
        opp_inj == ctx.opp_inj_count
    IN IF lg = "nba" THEN
           LET p1 == Mul(proj, pace_adjust(opp_abbr))
               p2 == IF fav # "None"
                     THEN Mul(p1, nba_game_script_multiplier(fav = "True",
                                                             blowout_risk, is_star))
                     ELSE p1
               p3 == Mul(p2, garbage_time_multiplier(blowout_risk, is_star))
               p4 == Mul(p3, 1000000 + Min(80000, team_inj * 20000))
               p5 == Mul(p4, 1000000 + Min(50000, opp_inj * 15000))
           IN Mul(p5, FtBoost(prop_type))
       ELSE
           LET p1 == Mul(proj, NflScriptMult(prop_type, fav, ctx.spread_abs))
               p2 == IF fav = "False"
                        /\ prop_type \in {"pass_yards", "receptions", "rec_yards"}
                     THEN Mul(p1, 1000000 + (blowout_risk * 6) \div 100)
                     ELSE p1
               p3 == Mul(p2, 1000000 + Min(60000, team_inj * 20000))
               p4 == Mul(p3, 1000000 + Min(40000, opp_inj * 15000))
               p5 == Mul(p4, DpiBoost(prop_type))
           IN IF DOMAIN profile # {}
              THEN Mul(p5, Field(profile, "weather_impact", 1000) * 1000)
              ELSE p5

\* Lines 842-849: z = diff / scale in thousandths, for a line above 0.
EdgeZ(proj, line, side) ==
    LET d == proj - line
        diff == IF side = "under" THEN -d ELSE d
        scale == Max(1000, (line * 12) \div 100)
    IN (diff * 1000) \div scale

\* Line 218: math.exp(-z) raises OverflowError once -z is past the largest
\* exponent of a double, 709.78; nothing in edge_score_from_projection or
\* score_prop catches it. With the static profiles (at most 323 yards) and a
\* line above 0, z stays above -400 in score_prop.
SigmoidRaises(z) == -z > 709782

EdgeRaises(proj, line, side) ==
    line > 0 /\ SigmoidRaises(EdgeZ(proj, line, side))

\* Lines 833-856 for z = diff / scale put straight on the 0-100 scale,
\* 50 + 10 z, in place of 100 * sigmoid(z) and the clamp.
edge_score_Linear(proj, line, side, line_stdev) ==
    IF line <= 0 THEN 0
    ELSE ((50000 + 10 * EdgeZ(proj, line, side)) \div 1000)
         * ((1000000 - Min(200000, line_stdev * 150)) \div 1000)

\* Lines 833-856 without the test of lines 838-839.
edge_score_NoLineTest(proj, line, side, line_stdev) ==
    LET p == sigmoid(EdgeZ(proj, line, side))
        score == Mul(p \div 10, 1000000 - Min(200000, line_stdev * 150))
    IN clamp(score, 0, 100000)

\* Lines 833-856; side is "over" or "under"; the score in thousandths.
edge_score_from_projection(proj, line, side, line_stdev) ==
    IF line <= 0 THEN 0
    ELSE LET p == sigmoid(EdgeZ(proj, line, side))
             score == Mul(p \div 10, 1000000 - Min(200000, line_stdev * 150))
         IN clamp(score, 0, 100000)

\* Lines 874-894: the projection of a player without a usable profile.
FallbackProjection(line, lg, prop_type, opp_abbr) ==
    IF lg = "nba" THEN Mul(line, pace_adjust(opp_abbr))
    ELSE LET b1 == IF prop_type = "pass_yards"
                   THEN Mul(line, 1000000 + ((pass_rank(opp_abbr) - 16) * 1000000) \div 140)
                   ELSE line
         IN IF prop_type \in {"rush_yards", "carries"}
            THEN Mul(b1, 1000000 + ((run_rank(opp_abbr) - 16) * 1000000) \div 160)
            ELSE b1

\* Lines 930-932 with the test turned round.
BestSide_Reversed(over, under) ==
    IF over > under THEN [score |-> over, side |-> "UNDER"]
    ELSE [score |-> under, side |-> "OVER"]

\* Lines 930-932: the side returned with its score.
BestSide(over, under) ==
    IF under > over THEN [score |-> under, side |-> "UNDER"]
    ELSE [score |-> over, side |-> "OVER"]

\* Lines 858-932, without the breakdown dict (display only):
\* [score, side, proj].
score_prop(player, prop_type, line, lg, ctx, line_stdev) ==
    LET profile == IF lg = "nba" THEN NBA_PLAYERS_DATA(player)
                   ELSE NFL_PLAYERS_DATA(player)
        from_profile == projection_from_profile(profile, prop_type, lg)
        base_proj == IF from_profile.some THEN from_profile.v
                     ELSE FallbackProjection(line, lg, prop_type, ctx.opponent_abbr)
        proj == apply_context_multipliers(base_proj, lg, prop_type, ctx, profile)
        over == edge_score_from_projection(proj, line, "over", line_stdev)
        under == edge_score_from_projection(proj, line, "under", line_stdev)
        best == BestSide(over, under)
    IN [score |-> best.score, side |-> best.side, proj |-> proj]

---------------------------------------------------------------------------
(* The odds of one event: what the provider answers and how it is parsed.  *)

W_Over == << "O", "v", "e", "r" >>
W_Under == << "U", "n", "d", "e", "r" >>
W_Yes == << "Y", "e", "s" >>

\* Lines 230-237.
normalize_player_name(name) ==
    IF name = NoName THEN NoName
    ELSE LET s == Strip(name) IN
         IF s = N_SGA_Blank THEN N_SGA ELSE s

\* An outcome of a player-prop market, in the order the body lists the
\* books, their markets and the outcomes: the market's key, description (the
\* player), name (the side) and point (the line, or None).
Out(mkey, description, name, point) ==
    [key |-> mkey, description |-> description, name |-> name, point |-> point]

\* Both sides of a player's line at one book.
Both(mkey, description, point) ==
    << Out(mkey, description, W_Over, Num(point)),
       Out(mkey, description, W_Under, Num(point)) >>

\* Lines 516-521: the player of an outcome, and whether the outcome counts.
OutcomePlayer(o) ==
    normalize_player_name(IF o.description # NoName THEN o.description ELSE o.name)

OutcomeCounts(o) ==
    /\ OutcomePlayer(o) # NoName
    /\ o.point.some
    /\ Lower(Strip(o.name)) \in {Lower(W_Over), Lower(W_Under)}

\* Lines 522-523: the keys (player, market key) of lines_by in the order
\* they are first met, which is the order lines_by.items() yields them in.
RECURSIVE LineKeys(_, _)
LineKeys(outs, seen) ==
    IF outs = << >> THEN seen
    ELSE LET o == Head(outs)
             k == [player |-> OutcomePlayer(o), market_key |-> o.key]
         IN LineKeys(Tail(outs),
                     IF OutcomeCounts(o) /\ k \notin Range(seen)
                     THEN Append(seen, k) ELSE seen)

\* lines_by[k]: the points of the outcomes that count for key k.
RECURSIVE PointsOf(_, _)
PointsOf(outs, k) ==
    IF outs = << >> THEN << >>
    ELSE LET o == Head(outs) IN
         (IF OutcomeCounts(o) /\ OutcomePlayer(o) = k.player /\ o.key = k.market_key
          THEN << o.point.v >> ELSE << >>)
         \o PointsOf(Tail(outs), k)

\* parse_player_prop_lines, lines 503-546, without the prices (display
\* only).
parse_player_prop_lines(outs) ==
    LET keys == LineKeys(outs, << >>) IN
    [i \in 1..Len(keys) |->
        LET pts == PointsOf(outs, keys[i]) IN
        [player |-> keys[i].player,
         market_key |-> keys[i].market_key,
         line |-> median(pts),
         line_stdev |-> IF Len(pts) >= 2 THEN pstdev(pts) ELSE 0]]

\* Line 523: float(point) raises ValueError on the first outcome that passed
\* the test of line 520 with a point that is not a number; nothing in
\* parse_player_prop_lines catches it.
ParseRaises(outs) ==
    \E i \in 1..Len(outs) : OutcomeCounts(outs[i]) /\ ~IsNumber(outs[i].point)

\* An outcome of a main market: "spreads" outcomes are named after a team,
\* "totals" outcomes Over and Under.
MainOut(mkey, name, point) == [key |-> mkey, name |-> name, point |-> point]

RECURSIVE SpreadsOf(_, _)
SpreadsOf(outs, team) ==
    IF outs = << >> THEN << >>
    ELSE LET o == Head(outs) IN
         (IF o.key = "spreads" /\ o.point.some /\ o.name # "" /\ o.name = team
          THEN << o.point.v >> ELSE << >>)
         \o SpreadsOf(Tail(outs), team)

RECURSIVE TotalsOf(_)
TotalsOf(outs) ==
    IF outs = << >> THEN << >>
    ELSE LET o == Head(outs) IN
         (IF o.key = "totals" /\ o.point.some
             /\ Lower(o.name) \in {Lower(W_Over), Lower(W_Under)}
          THEN << o.point.v >> ELSE << >>)
         \o TotalsOf(Tail(outs))

\* parse_main_lines, lines 548-593. An outcome named after the home team
\* counts for the home team even when both teams carry the name (line 572
\* comes before line 574).
parse_main_lines(outs, home_team, away_team) ==
    LET home_spreads == SpreadsOf(outs, home_team)
        away_spreads == IF away_team = home_team THEN << >>
                        ELSE SpreadsOf(outs, away_team)
        totals == TotalsOf(outs)
    IN [spread_home |-> IF home_spreads # << >> THEN Num(median(home_spreads))
                        ELSE NoNumber,
        spread_away |-> IF away_spreads # << >> THEN Num(median(away_spreads))
                        ELSE NoNumber,
        total |-> IF totals # << >> THEN Num(median(totals)) ELSE NoNumber]

NoMainLines == [spread_home |-> NoNumber, spread_away |-> NoNumber, total |-> NoNumber]

---------------------------------------------------------------------------
(* The per-game loop: placing a player in the game, and scoring the line.  *)

\* player_team is None
NoTeam == "<None>"

\* Lines 938-945, with the team resolution left to a player any team's
\* roster holds.
resolve_player_team_AnyGame(player_name, p2t, home_abbr, away_abbr) ==
    IF player_name \in DOMAIN p2t THEN p2t[player_name] ELSE NoTeam

\* Lines 938-945.
resolve_player_team(player_name, p2t, home_abbr, away_abbr) ==
    IF player_name \in DOMAIN p2t /\ p2t[player_name] \in {home_abbr, away_abbr}
    THEN p2t[player_name]
    ELSE NoTeam

\* s.replace(old, new) for a one-character old: new is a string of zero or
\* more characters.
RECURSIVE Replace(_, _, _)
Replace(s, old, new) ==
    IF s = << >> THEN << >>
    ELSE (IF Head(s) = old THEN new ELSE << Head(s) >>) \o Replace(Tail(s), old, new)

\* Lines 1058 and 1063: lower().replace(".", "").replace("-", " ").strip()
FuzzyKey(name) == Strip(Replace(Replace(Lower(name), ".", << >>), "-", << " " >>))

\* Lines 1061-1066: a name of abbr's roster has the player's key.
RosterHasKey(ri, abbr, player) ==
    /\ abbr \in DOMAIN ri
    /\ \E rn \in ri[abbr] : FuzzyKey(rn) = FuzzyKey(player)

\* Lines 1059-1069: found. The scan stops at the first abbr whose match is
\* a non-empty string.
FuzzyTeam(ri, player, home_abbr, away_abbr) ==
    IF RosterHasKey(ri, home_abbr, player) /\ home_abbr # "" THEN home_abbr
    ELSE IF RosterHasKey(ri, away_abbr, player) THEN away_abbr
    ELSE IF RosterHasKey(ri, home_abbr, player) THEN home_abbr
    ELSE NoTeam

\* Lines 1055-1069: player_team.
PlayerTeam(ri, p2t, player, home_abbr, away_abbr) ==
    LET exact == resolve_player_team(player, p2t, home_abbr, away_abbr) IN
    IF exact # NoTeam THEN exact
    ELSE FuzzyTeam(ri, player, home_abbr, away_abbr)

\* Lines 947-952.
pick_opponent(team_abbr, home_abbr, away_abbr) ==
    IF team_abbr = home_abbr THEN away_abbr
    ELSE IF team_abbr = away_abbr THEN home_abbr
    ELSE ""

\* Lines 954-963: "True", "False" or "None".
is_team_favorite(team_abbr, home_abbr, away_abbr, spread_home, spread_away) ==
    IF team_abbr = home_abbr /\ spread_home.some
    THEN (IF spread_home.v < 0 THEN "True" ELSE "False")
    ELSE IF team_abbr = away_abbr /\ spread_away.some
    THEN (IF spread_away.v < 0 THEN "True" ELSE "False")
    ELSE "None"

\* Lines 1028-1032.
SpreadAbs(main_lines) ==
    IF main_lines.spread_home.some THEN Num(Abs(main_lines.spread_home.v))
    ELSE IF main_lines.spread_away.some THEN Num(Abs(main_lines.spread_away.v))
    ELSE NoNumber

\* team_inj_counts.get(abbr, 0)
CountOf(counts, abbr) == IF abbr \in DOMAIN counts THEN counts[abbr] ELSE 0

\* Lines 1079-1092: ctx for a player placed in player_team.
Ctx(player_team, home_abbr, away_abbr, main_lines, counts) ==
    LET opp_abbr == pick_opponent(player_team, home_abbr, away_abbr) IN
    [team_abbr |-> player_team,
     opponent_abbr |-> opp_abbr,
     is_favorite |-> is_team_favorite(player_team, home_abbr, away_abbr,
                                      main_lines.spread_home, main_lines.spread_away),
     spread_abs |-> SpreadAbs(main_lines),
     total |-> main_lines.total,
     team_inj_count |-> CountOf(counts, player_team),
     opp_inj_count |-> CountOf(counts, opp_abbr)]

\* Line 1076: the injury filter.
IsInjured(player, injured_set) == player \in injured_set

\* Lines 1043-1121, one item of lines: the pick appended, or nothing. A pick
\* keeps the event id and the abbreviations of its game next to the fields
\* of lines 1111-1121 (breakdown and time left out).
PicksOfItem(item, g, lg, home_abbr, away_abbr, main_lines, ri, p2t, injured_set, counts) ==
    LET prop_type == market_to_prop(lg, item.market_key)
        player_team == PlayerTeam(ri, p2t, item.player, home_abbr, away_abbr)
        ctx == Ctx(player_team, home_abbr, away_abbr, main_lines, counts)
        sp == score_prop(item.player, prop_type, item.line, lg, ctx, item.line_stdev)
    IN IF prop_type = "" THEN << >>
       ELSE IF player_team = NoTeam THEN << >>
       ELSE IF IsInjured(item.player, injured_set) THEN << >>
       ELSE IF sp.score < 65000 THEN << >>
       ELSE << [player |-> item.player, prop_type |-> prop_type,
                line |-> item.line, side |-> sp.side, proj |-> sp.proj,
                edge_score |-> sp.score,
                matchup |-> << g.away_team, g.home_team >>,
                event_id |-> g.id, home_abbr |-> home_abbr,
                away_abbr |-> away_abbr] >>

\* Lines 1042-1121 over lines.
RECURSIVE PicksOfLines(_, _, _, _, _, _, _, _, _, _)
PicksOfLines(lines, g, lg, home_abbr, away_abbr, main_lines, ri, p2t, injured_set, counts) ==
    IF lines = << >> THEN << >>
    ELSE PicksOfItem(Head(lines), g, lg, home_abbr, away_abbr, main_lines,
                     ri, p2t, injured_set, counts)
         \o PicksOfLines(Tail(lines), g, lg, home_abbr, away_abbr, main_lines,
                         ri, p2t, injured_set, counts)

\* Line 1123: picks.sort(key=edge_score, reverse=True), a stable sort.
RECURSIVE InsertPick(_, _)
InsertPick(p, s) ==
    IF s = << >> THEN << p >>
    ELSE IF p.edge_score >= Head(s).edge_score THEN << p >> \o s
    ELSE << Head(s) >> \o InsertPick(p, Tail(s))

\* The list left in the order of the loop.
SortPicks_Skipped(s) == s

RECURSIVE SortPicks(_)
SortPicks(s) == IF s = << >> THEN << >> ELSE InsertPick(Head(s), SortPicks(Tail(s)))

\* Line 1124: picks[:keep_top] for keep_top >= 0.
FirstN(s, n) == SubSeq(s, 1, Min(n, Len(s)))

---------------------------------------------------------------------------
(* SpecLoop: the per-game loop of generate_top_props_for_league, lines     *)
(* 1005-1124, entered with the tables build_today_roster_index and         *)
(* fetch_espn_injuries return for the day's games. (In a run of main the   *)
(* function raises at line 993 before it gets here: see Spec.)             *)

\* What the main-markets request of a game can answer: one book's spreads
\* and totals with the home team a 10-point favourite, two books' spreads
\* for the away team only, or an exception.
MainOddsResponses(g) ==
    { [kind |-> "exc"],
      [kind |-> "json",
       outcomes |-> << MainOut("spreads", g.home_team, Num(-10000)),
                       MainOut("spreads", g.away_team, Num(10000)),
                       MainOut("totals", W_Over, Num(220500)),
                       MainOut("totals", W_Under, Num(220500)),
                       MainOut("totals", W_Yes, Num(1000)),
                       MainOut("spreads", g.home_team, NoNumber) >>],
      [kind |-> "json",
       outcomes |-> << MainOut("spreads", g.away_team, Num(-3500)),
                       MainOut("spreads", g.away_team, Num(-4500)),
                       MainOut("spreads", "", Num(-20000)) >>] }

\* What the player-props request of a game can answer.
PropOddsBodies(lg) ==
    IF lg = "nba"
    THEN { \* a player the odds feed spells without the periods of his roster
           \* name, at two books; a player with a profile; a market the
           \* table does not hold
           Both("player_points", N_PJ_Odds, 20500)
             \o Both("player_points", N_PJ_Odds, 21500)
             \o Both("player_points", N_LJ, 24500)
             \o Both("player_double_double", N_JW, 500),
           \* a player no roster holds, far above his line; a player of the
           \* second team; outcomes that do not count
           Both("player_points", N_SGA_Blank, 10500)
             \o Both("player_points", N_KD, 20500)
             \o << Out("player_rebounds", N_JW, W_Yes, Num(4500)),
                   Out("player_assists", N_JW, W_Over, NoNumber),
                   Out("player_assists", NoName, << >>, Num(4500)) >>,
           \* a name both rosters hold; a line far above the profile; a
           \* line at the profile
           Both("player_rebounds", << " " >> \o N_JW, 7500)
             \o Both("player_points", N_KD, 38500)
             \o Both("player_steals", N_LJ, 1500)
             \o << Out("player_threes", N_KD, W_Over, Num(0)) >> }
    ELSE { Both("player_pass_yds", N_JA, 250500)
             \o Both("player_receptions", N_TK, 4500)
             \o Both("player_rush_yds", N_PM, 20500),
           Both("player_rush_attempts", N_JA, 8500)
             \o Both("player_pass_yds", N_JA, 310500)
             \o Both("player_anytime_td", N_JA, 500) }

PropOddsResponses(lg) ==
    { [kind |-> "exc"] } \cup { [kind |-> "json", outcomes |-> b] : b \in PropOddsBodies(lg) }

\* oddsapi_get_event_odds, lines 474-488: require_api_key raises before any
\* request is sent; a failed request raises (raise_for_status).
oddsapi_get_event_odds(key, resp) ==
    IF KeyMissing(key) THEN [raised |-> TRUE, sent |-> FALSE, body |-> << >>]
    ELSE IF resp.kind = "exc" THEN [raised |-> TRUE, sent |-> TRUE, body |-> << >>]
    ELSE [raised |-> FALSE, sent |-> TRUE, body |-> resp.outcomes]

\* Lines 1020-1024: main_lines; the except gives the three None.
MainLinesOf(key, resp, home_team, away_team) ==
    LET r == oddsapi_get_event_odds(key, resp) IN
    IF r.raised THEN NoMainLines
    ELSE parse_main_lines(r.body, home_team, away_team)

\* Lines 1035-1040 with the try removed: a failed player-props request
\* leaves the function as an exception.
PropLinesOf_NoTry(key, resp) ==
    LET r == oddsapi_get_event_odds(key, resp)
        parse_raised == ~r.raised /\ ParseRaises(r.body)
    IN [raised |-> r.raised \/ parse_raised, skipped |-> FALSE,
        lines |-> IF r.raised \/ parse_raised THEN << >>
                  ELSE parse_player_prop_lines(r.body)]

\* Lines 1035-1040: lines, or `continue` when the request raised. The call
\* of parse_player_prop_lines (line 1040) is after the try: what it raises
\* leaves the function.
PropLinesOf(key, resp) ==
    LET r == oddsapi_get_event_odds(key, resp)
        parse_raised == ~r.raised /\ ParseRaises(r.body)
    IN [raised |-> parse_raised, skipped |-> r.raised,
        lines |-> IF r.raised \/ parse_raised THEN << >>
                  ELSE parse_player_prop_lines(r.body)]

\* Lines 599-615: abbreviate_team(team_name, league).
abbreviate_team(team_name, lg) ==
    IF lg = "nba"
    THEN CASE team_name = "Los Angeles Lakers" -> "LAL"
           [] team_name = "Golden State Warriors" -> "GS"
           [] team_name = "Houston Rockets" -> "HOU"
           [] team_name = "Denver Nuggets" -> "DEN"
           [] OTHER -> ""
    ELSE CASE team_name = "Miami Dolphins" -> "MIA"
           [] team_name = "Buffalo Bills" -> "BUF"
           [] team_name = "Kansas City Chiefs" -> "KC"
           [] OTHER -> ""

\* Lines 1015-1016: home_abbr and away_abbr. The calls pass a third
\* argument, which abbreviate_team does not take; the loop is followed with
\* the value abbreviate_team gives for the first two, and with "" (what it
\* gives for a team it does not know) for both.
AbbrPairs(g, lg) ==
    { [home_abbr |-> abbreviate_team(g.home_team, lg),
       away_abbr |-> abbreviate_team(g.away_team, lg)],
      [home_abbr |-> "", away_abbr |-> ""] }

\* The orders a for loop can meet the members of a set in.
Orders(S) == {s \in [1..Cardinality(S) -> S] : Range(s) = S}

\* build_today_roster_index over the teams of `order`, from empty cache
\* files: the three tables. `failed` holds the abbrs whose roster request
\* raises.
RECURSIVE IndexAfter(_, _, _, _)
IndexAfter(acc, lg, order, failed) ==
    IF order = << >> THEN acc
    ELSE LET meta == ParseTeamList(EspnTeams(lg))[Head(order)]
             resp == IF meta.abbr \in failed THEN [kind |-> "exc"]
                     ELSE [kind |-> "json",
                           athletes |-> EspnRosterBody(lg, meta.id, 1)]
             rl == RosterListOf(FALSE, EmptyMap, meta.abbr, resp).roster_list
         IN IndexAfter(
                [roster_index |-> Put(acc.roster_index, meta.abbr, RosterNames(rl)),
                 player_to_team |-> TeamsAfterRoster(acc.player_to_team, rl, meta.abbr),
                 player_to_athlete_id |-> IdsAfterRoster(acc.player_to_athlete_id, rl)],
                lg, Tail(order), failed)

\* fetch_espn_injuries over ESPN's team list, from an empty cache file.
RECURSIVE InjuriesAfterTeams(_, _, _)
InjuriesAfterTeams(acc, lg, teams) ==
    IF teams = << >> THEN acc
    ELSE InjuriesAfterTeams(
            InjuriesAfterList(acc, InjuryBody(lg, Head(teams).id, 1),
                              Head(teams).abbreviation),
            lg, Tail(teams))

NoInjuries == [injured |-> {}, status |-> EmptyMap, team_counts |-> EmptyMap]

LoopInit ==
    \E lg \in Leagues :
    \E evs \in EventLists(lg), kt \in {2, 8}, key \in {"", "k"},
       roster_down \in BOOLEAN, injuries_down \in BOOLEAN :
    \E order \in Orders(TeamsToday(build_games_from_events(evs))
                        \cap DOMAIN ParseTeamList(EspnTeams(lg))) :
        LET idx == IndexAfter([roster_index |-> EmptyMap,
                               player_to_team |-> EmptyMap,
                               player_to_athlete_id |-> EmptyMap],
                              lg, order,
                              IF roster_down THEN {EspnTeams(lg)[2].abbreviation}
                              ELSE {})
            inj == IF injuries_down THEN NoInjuries
                   ELSE InjuriesAfterTeams(NoInjuries, lg, EspnTeams(lg))
        IN
        /\ ODDS_API_KEY = key
        /\ day = 1
        /\ teammap_file = [l \in Leagues |-> Absent]
        /\ roster_file = [l \in Leagues |-> Absent]
        /\ injury_file = [l \in Leagues |-> Absent]
        /\ net = << >>
        /\ pc = "loop"
        /\ league = lg
        /\ raise_at = ""
        /\ http_failed = {}
        /\ runs = 0
        /\ events = evs
        /\ games = build_games_from_events(evs)
        /\ teams_today = TeamsToday(build_games_from_events(evs))
        /\ team_map = ParseTeamList(EspnTeams(lg))
        /\ use_cache = TRUE
        /\ todo = {}
        /\ cached = EmptyMap
        /\ roster_index = idx.roster_index
        /\ player_to_team = idx.player_to_team
        /\ player_to_athlete_id = idx.player_to_athlete_id
        /\ got = EmptyMap
        /\ fetch_failed = {}
        /\ warm = FALSE
        /\ injured = inj.injured
        /\ status = inj.status
        /\ team_counts = inj.team_counts
        /\ asof = {1}
        /\ keep_top = kt
        /\ gi = 1
        /\ picks = << >>
        /\ visited = << >>
        /\ NoFnState

\* Lines 1008-1010: a game without an event id is passed over.
LoopSkipGame ==
    /\ pc = "loop"
    /\ gi <= Len(games)
    /\ games[gi].id = ""
    /\ gi' = gi + 1
    /\ visited' = Append(visited, [id |-> "", main_failed |-> FALSE,
                                   props_failed |-> FALSE, scored |-> FALSE,
                                   spread_abs |-> NoNumber, total |-> NoNumber,
                                   lines |-> << >>])
    /\ UNCHANGED <<envVars, net, pc, league, raise_at, http_failed, runs,
                   leagueVars, indexVars, injuryVars, asof, keep_top, picks, fnVars>>

\* Lines 1008-1121: one pass of the for loop over a game with an event id:
\* the two odds requests, and the picks of the game's lines.
LoopGame ==
    /\ pc = "loop"
    /\ gi <= Len(games)
    /\ games[gi].id # ""
    /\ LET g == games[gi] IN
       \E ab \in AbbrPairs(g, league), mresp \in MainOddsResponses(g),
          presp \in PropOddsResponses(league) :
        LET mreq == oddsapi_get_event_odds(ODDS_API_KEY, mresp)
            preq == oddsapi_get_event_odds(ODDS_API_KEY, presp)
            main_lines == MainLinesOf(ODDS_API_KEY, mresp, g.home_team, g.away_team)
            props == PropLinesOf(ODDS_API_KEY, presp)
            new == PicksOfLines(props.lines, g, league, ab.home_abbr, ab.away_abbr,
                                main_lines, roster_index, player_to_team,
                                injured, team_counts)
        IN
        /\ net' = net
                  \o (IF mreq.sent
                      THEN << Request("odds", "event_odds_main", league, ODDS_API_KEY) >>
                      ELSE << >>)
                  \o (IF preq.sent
                      THEN << Request("odds", "event_odds_props", league, ODDS_API_KEY) >>
                      ELSE << >>)
        /\ http_failed' = http_failed
                          \cup (IF mreq.raised THEN {"event_odds_main"} ELSE {})
                          \cup (IF preq.raised THEN {"event_odds_props"} ELSE {})
        /\ IF props.raised
           THEN /\ pc' = "raised"
                /\ raise_at' = IF preq.raised
                                THEN "generate_top_props_for_league:1036"
                                ELSE "parse_player_prop_lines:523"
                /\ UNCHANGED <<gi, picks, visited>>
           ELSE /\ gi' = gi + 1
                /\ picks' = picks \o new
                /\ visited' = Append(visited,
                                     [id |-> g.id, main_failed |-> mreq.raised,
                                      props_failed |-> preq.raised,
                                      scored |-> ~props.skipped,
                                      spread_abs |-> SpreadAbs(main_lines),
                                      total |-> main_lines.total,
                                      lines |-> props.lines])
                /\ UNCHANGED <<pc, raise_at>>
    /\ UNCHANGED <<envVars, league, runs, leagueVars, indexVars, injuryVars,
                   asof, keep_top, fnVars>>

\* Lines 1123-1124: the sort and the cut.
LoopReturn ==
    /\ pc = "loop"
    /\ gi > Len(games)
    /\ picks' = FirstN(SortPicks(picks), keep_top)
    /\ pc' = "loop_returned"
    /\ UNCHANGED <<envVars, net, league, raise_at, http_failed, runs, leagueVars,
                   indexVars, injuryVars, asof, keep_top, gi, visited, fnVars>>

LoopNext ==
    \/ LoopSkipGame
    \/ LoopGame
    \/ LoopReturn

SpecLoop == LoopInit /\ [][LoopNext]_vars

---------------------------------------------------------------------------
(* SpecFn: one call of a function of the scoring pipeline, taken alone,    *)
(* over arguments drawn from bounded sets.                                 *)

\* The outcomes a parsed body is made of: the two sides of a line, a side
\* spelled with blanks and capitals, a second player, a side that is
\* neither over nor under, a missing point, a point that is not a number.
ParseOutcomes ==
    { Out("player_points", N_PJ_Odds, W_Over, Num(20500)),
      Out("player_points", N_PJ_Odds, W_Under, Num(21500)),
      Out("player_points", N_PJ_Odds, << " " >> \o Upper(W_Over), Num(19000)),
      Out("player_points", N_LJ, W_Over, Num(24500)),
      Out("player_points", N_PJ_Odds, W_Yes, Num(99000)),
      Out("player_points", N_PJ_Odds, W_Over, NoNumber),
      Out("player_points", N_PJ_Odds, W_Over, NotANumber),
      Out("player_points", N_PJ_Odds, W_Yes, NotANumber) }

ParseCalls ==
    { [fn |-> "parse_player_prop_lines", outs |-> o] :
        o \in UNION { [1..n -> ParseOutcomes] : n \in 0..MaxOutcomes } }

\* The names normalize_player_name is called with: None or "", a blank, the
\* spellings of one player, the name of the fixes table, names with blanks
\* around them.
NameCalls ==
    { [fn |-> "normalize_player_name", name |-> n] :
        n \in { NoName, << " " >>, N_PJ, N_PJ_Odds, Lower(N_PJ_Odds), N_SGA,
                N_SGA_Blank, << " " >> \o N_SGA_Blank \o << " " >>,
                << " ", " " >> \o N_JW, N_JW \o << " ", " " >> } }

\* The arguments edge_score_from_projection is called with, in thousandths:
\* projections from far below to far above the line, lines at and below 0,
\* books that agree and books that do not.
EdgeCalls ==
    { [fn |-> "edge_score_from_projection", proj |-> p, line |-> l, side |-> sd,
       line_stdev |-> sv] :
        p \in {-1000000, 0, 5000, 20000, 24000, 25000, 30000, 1000000},
        l \in {-1000, 0, 500, 1000, 5500, 20500, 24500},
        sd \in {"over", "under"},
        sv \in {0, 500, 1000, 2000} }

\* The game the items below belong to: the Lakers at home to the Warriors.
ItemGame == Event("e1", EspnTeams("nba")[1].displayName, EspnTeams("nba")[2].displayName)

\* One item of lines with the tables of its game: a player with a profile
\* (N_LJ, N_KD) or without (N_JW) on the home team or the away team, a
\* points or a steals line, no main lines, the home team favoured by 10 or
\* the away team by 3.5, no injured players or four on either team.
ItemCalls ==
    { [fn |-> "score_prop", player |-> pl, market_key |-> mk, line |-> l,
       line_stdev |-> sv, team |-> tm, main_lines |-> ml, counts |-> cn] :
        pl \in {N_LJ, N_KD, N_JW},
        mk \in {"player_points", "player_steals"},
        l \in {-500, 0, 1500, 20500, 24600, 38500},
        sv \in {0, 2000},
        tm \in {"LAL", "GS"},
        ml \in { NoMainLines,
                 [spread_home |-> Num(-10000), spread_away |-> Num(10000),
                  total |-> Num(220500)],
                 [spread_home |-> NoNumber, spread_away |-> Num(-3500),
                  total |-> NoNumber] },
        cn \in { EmptyMap, [a \in {"LAL", "GS"} |-> 4] } }

\* The spreads compute_blowout_risk is called with: None, and magnitudes on
\* both sides of 7, 10, 14 and 18.
BlowoutCalls ==
    { [fn |-> "compute_blowout_risk", spread_abs |-> sa] :
        sa \in {NoNumber} \cup { Num(v) : v \in {0, 3500, 6500, 7000, 9500, 10000,
                                                13500, 14000, 18000, 20500} } }

\* The NFL contexts apply_context_multipliers is called with on a projection
\* of 100: a prop of every kind lines 802-807 tell apart, the player's team
\* favoured, not favoured or unplaced, spreads from none to beyond 14, and
\* totals from none over low to very high. No injuries, no profile.
ContextCalls ==
    { [fn |-> "apply_context_multipliers", prop_type |-> pt, is_favorite |-> fv,
       spread_abs |-> sa, total |-> tt] :
        pt \in {"pass_yards", "pass_td", "rush_yards", "carries", "receptions",
                "rec_yards", "rush_td"},
        fv \in {"True", "False", "None"},
        sa \in {NoNumber} \cup { Num(v) : v \in {0, 3500, 7000, 14000, 20500} },
        tt \in {NoNumber} \cup { Num(v) : v \in {35000, 44500, 60000} } }

\* The ctx of lines 1084-1092 for a call of ContextCalls.
ContextOf(c) ==
    [team_abbr |-> "MIA", opponent_abbr |-> "",
     is_favorite |-> c.is_favorite, spread_abs |-> c.spread_abs, total |-> c.total,
     team_inj_count |-> 0, opp_inj_count |-> 0]

\* update_dashboard.py. A file is the sequence of its characters; the
\* texts of the model are ASCII but for BadByte, a byte that is no UTF-8.
CR == "\r"
LF == "\n"
BadByte == "xFF"

\* Line 10.
marker == << "L", "a", "s", "t", " ", "U", "p", "d", "a", "t", "e", "d", ":" >>
EndOfParagraph == << "<", "/", "p", ">" >>

\* Line 8: strftime("%Y-%m-%d %H:%M UTC") of the clock, on day d of
\* November 2026 at 09:30.
Digit(n) == << "0", "1", "2", "3", "4", "5", "6", "7", "8", "9" >>[n + 1]
NowText(d) ==
    << "2", "0", "2", "6", "-", "1", "1", "-", Digit(d \div 10), Digit(d % 10),
       " ", "0", "9", ":", "3", "0", " ", "U", "T", "C" >>

\* Lines 5-6: open(path, "r", encoding="utf-8").read() decodes the bytes and,
\* newline being left at None, gives every "\r\n" and every other "\r" as
\* "\n".
RECURSIVE UniversalNewlines(_)
UniversalNewlines(s) ==
    IF s = << >> THEN << >>
    ELSE IF Head(s) = CR
         THEN IF Len(s) >= 2 /\ s[2] = LF
              THEN << LF >> \o UniversalNewlines(Tail(Tail(s)))
              ELSE << LF >> \o UniversalNewlines(Tail(s))
    ELSE << Head(s) >> \o UniversalNewlines(Tail(s))

ReadText(content) ==
    IF BadByte \in Range(content)
    THEN [raised |-> TRUE, text |-> << >>]
    ELSE [raised |-> FALSE, text |-> UniversalNewlines(content)]

\* Lines 18-19: open(path, "w", encoding="utf-8").write(text) writes every
\* "\n" as the platform's os.linesep.
WriteText(text, linesep) == Replace(text, LF, linesep)

\* str.index(sub, start) with positions from 1: the first place at or after
\* start where sub is found, 0 where str.index raises ValueError.
RECURSIVE Index(_, _, _)
Index(s, sub, start) ==
    IF start + Len(sub) - 1 > Len(s) THEN 0
    ELSE IF SubSeq(s, start, start + Len(sub) - 1) = sub THEN start
    ELSE Index(s, sub, start + 1)

\* Lines 5-19 on a file of the given content: whether the script raised
\* (and where), and the content of the file afterwards. The file is opened
\* for writing at line 18 only, so that a script that raised has left it.
update_dashboard(content, now, linesep) ==
    LET rd == ReadText(content)
        html == rd.text
        at == Index(html, marker, 1)
        start == at + Len(marker)
        end == Index(html, EndOfParagraph, start)
        new_html == IF at # 0
                    THEN SubSeq(html, 1, start - 1) \o << " " >> \o now
                             \o SubSeq(html, end, Len(html))
                    ELSE html
    IN IF rd.raised
       THEN [raised |-> TRUE, at |-> "update_dashboard:6", content |-> content]
       ELSE IF at # 0 /\ end = 0
       THEN [raised |-> TRUE, at |-> "update_dashboard:13", content |-> content]
       ELSE [raised |-> FALSE, at |-> "", content |-> WriteText(new_html, linesep)]

\* The files of the calls: up to MaxPieces pieces of text in a row.
Pieces ==
    { marker, EndOfParagraph, << "x" >>, << CR, LF >>, << LF >>, << CR >>,
      << BadByte >> }

RECURSIVE Files(_)
Files(n) ==
    IF n = 0 THEN { << >> }
    ELSE Files(n - 1) \cup { f \o q : f \in Files(n - 1), q \in Pieces }

\* A run of update_dashboard.py: the file, the day of the clock and the
\* platform's line separator.
UpdateCalls ==
    { [fn |-> "update_dashboard", content |-> f, now |-> NowText(d),
       linesep |-> sep] :
        f \in Files(MaxPieces), d \in 1..MaxDay, sep \in { << LF >>, << CR, LF >> } }

FnCalls ==
    ParseCalls \cup NameCalls \cup EdgeCalls \cup ItemCalls \cup BlowoutCalls
        \cup ContextCalls \cup UpdateCalls

FnInit ==
    /\ ODDS_API_KEY = "k"
    /\ day = 1
    /\ teammap_file = [lg \in Leagues |-> Absent]
    /\ roster_file = [lg \in Leagues |-> Absent]
    /\ injury_file = [lg \in Leagues |-> Absent]
    /\ net = << >>
    /\ pc = "call"
    /\ league = "nba"
    /\ raise_at = ""
    /\ http_failed = {}
    /\ runs = 0
    /\ teams_today = {}
    /\ asof = {}
    /\ NoLeagueState
    /\ NoIndexState
    /\ NoInjuryState
    /\ NoLoopState
    /\ arg \in FnCalls
    /\ result = [fn |-> ""]

\* parse_player_prop_lines(odds_json), lines 503-546.
CallParse ==
    /\ pc = "call"
    /\ arg.fn = "parse_player_prop_lines"
    /\ IF ParseRaises(arg.outs)
       THEN /\ pc' = "raised"
            /\ raise_at' = "parse_player_prop_lines:523"
            /\ UNCHANGED result
       ELSE /\ pc' = "returned"
            /\ result' = [fn |-> arg.fn, lines |-> parse_player_prop_lines(arg.outs)]
            /\ UNCHANGED raise_at
    /\ UNCHANGED <<envVars, net, league, http_failed, runs, leagueVars,
                   indexVars, injuryVars, asof, loopVars, arg>>

\* normalize_player_name(name), lines 230-237.
CallName ==
    /\ pc = "call"
    /\ arg.fn = "normalize_player_name"
    /\ pc' = "returned"
    /\ result' = [fn |-> arg.fn, name |-> normalize_player_name(arg.name)]
    /\ UNCHANGED <<envVars, net, league, raise_at, http_failed, runs, leagueVars,
                   indexVars, injuryVars, asof, loopVars, arg>>

\* edge_score_from_projection(proj, line, side, line_stdev), lines 833-856.
CallEdge ==
    /\ pc = "call"
    /\ arg.fn = "edge_score_from_projection"
    /\ IF EdgeRaises(arg.proj, arg.line, arg.side)
       THEN /\ pc' = "raised"
            /\ raise_at' = "sigmoid:218"
            /\ UNCHANGED result
       ELSE /\ pc' = "returned"
            /\ result' = [fn |-> arg.fn,
                          score |-> edge_score_from_projection(arg.proj, arg.line,
                                                               arg.side, arg.line_stdev)]
            /\ UNCHANGED raise_at
    /\ UNCHANGED <<envVars, net, league, http_failed, runs, leagueVars,
                   indexVars, injuryVars, asof, loopVars, arg>>

\* Lines 1043-1121 for one item of lines: the context, score_prop and the
\* threshold; picks is what the pass appends.
CallItem ==
    /\ pc = "call"
    /\ arg.fn = "score_prop"
    /\ LET item == [player |-> arg.player, market_key |-> arg.market_key,
                    line |-> arg.line, line_stdev |-> arg.line_stdev]
           ctx == Ctx(arg.team, "LAL", "GS", arg.main_lines, arg.counts)
           sp == score_prop(arg.player, market_to_prop("nba", arg.market_key),
                            arg.line, "nba", ctx, arg.line_stdev)
       IN result' = [fn |-> arg.fn, score |-> sp.score, side |-> sp.side,
                     proj |-> sp.proj,
                     picks |-> PicksOfItem(item, ItemGame, "nba", "LAL", "GS",
                                           arg.main_lines,
                                           Put(EmptyMap, arg.team, {arg.player}),
                                           Put(EmptyMap, arg.player, arg.team),
                                           {}, arg.counts)]
    /\ pc' = "returned"
    /\ UNCHANGED <<envVars, net, league, raise_at, http_failed, runs, leagueVars,
                   indexVars, injuryVars, asof, loopVars, arg>>

\* compute_blowout_risk(spread_abs), lines 621-628; risk in millionths.
CallBlowout ==
    /\ pc = "call"
    /\ arg.fn = "compute_blowout_risk"
    /\ pc' = "returned"
    /\ result' = [fn |-> arg.fn, risk |-> compute_blowout_risk(arg.spread_abs)]
    /\ UNCHANGED <<envVars, net, league, raise_at, http_failed, runs, leagueVars,
                   indexVars, injuryVars, asof, loopVars, arg>>

\* apply_context_multipliers(100.0, "nfl", prop_type, ctx, None), lines
\* 750-831; script is the multiplier of lines 795-807 on the way.
CallContext ==
    /\ pc = "call"
    /\ arg.fn = "apply_context_multipliers"
    /\ pc' = "returned"
    /\ result' = [fn |-> arg.fn,
                  script |-> NflScriptMult(arg.prop_type, arg.is_favorite, arg.spread_abs),
                  proj |-> apply_context_multipliers(100000, "nfl", arg.prop_type,
                                                     ContextOf(arg), NoProfile)]
    /\ UNCHANGED <<envVars, net, league, raise_at, http_failed, runs, leagueVars,
                   indexVars, injuryVars, asof, loopVars, arg>>

\* One run of update_dashboard.py, lines 1-19.
CallUpdate ==
    /\ pc = "call"
    /\ arg.fn = "update_dashboard"
    /\ LET r == update_dashboard(arg.content, arg.now, arg.linesep) IN
        /\ pc' = IF r.raised THEN "raised" ELSE "returned"
        /\ raise_at' = r.at
        /\ result' = [fn |-> arg.fn, content |-> r.content]
    /\ UNCHANGED <<envVars, net, league, http_failed, runs, leagueVars,
                   indexVars, injuryVars, asof, loopVars, arg>>

FnNext ==
    \/ CallBlowout
    \/ CallContext
    \/ CallParse
    \/ CallName
    \/ CallEdge
    \/ CallItem
    \/ CallUpdate

SpecFn == FnInit /\ [][FnNext]_vars

---------------------------------------------------------------------------
(* Properties of a run of main (Spec).                                    *)

\* C3: when the odds provider answers the events request of a league with
\* an empty list (and no request of the run failed),
\* generate_top_props_for_league does not raise: it returns an empty pick
\* list, which generate_html renders as the "No high-edge ... props found."
\* placeholder. The only raises of such a run are those of the key checks.
C3_EmptyEventsReturnNoPicks ==
    (pc = "raised" /\ events = << >> /\ http_failed = {})
        => raise_at \in {"main:1472", "require_api_key:463"}

\* C4: with an empty ODDS_API_KEY a run never gets past the key check of
\* main (line 1471), the first statement after the banner: it has raised
\* there with no HTTP request sent, before generate_top_props_for_league and
\* the write of the output file (lines 1483-1484) can be reached; and no
\* request to the odds provider carries an empty key.
C4_MissingKeyIsFatalBeforeNetwork ==
    /\ ODDS_API_KEY = "" =>
        /\ net = << >>
        /\ pc \in {"main", "raised"}
        /\ pc = "raised" => raise_at = "main:1472"
    /\ \A i \in 1..Len(net) : net[i].to = "odds" => net[i].key # ""

\* A run with an empty key has raised at the key check of main.
C4_Witness ==
    /\ ODDS_API_KEY = ""
    /\ pc = "raised"
    /\ raise_at = "main:1472"
    /\ net = << >>

\* C7: a failed HTTP call is "no data" for its scope and does not end the
\* run: no failure of the events-list request or of the ESPN team-list
\* request leaves main as an exception.
C7_HttpFailureIsNotFatal ==
    ~ /\ pc = "raised"
      /\ http_failed # {}
      /\ raise_at \in {"oddsapi_get_events:472", "build_games_from_events:494",
                       "espn_team_map:266"}

\* C21: a run of main with a key in which no HTTP request has failed does
\* not end in an exception (it goes on to return the pick lists of both
\* leagues and to write AI_Prediction_Engine.html).
C21_RunWithGoodDataDoesNotRaise ==
    (ODDS_API_KEY # "" /\ http_failed = {}) => pc # "raised"

---------------------------------------------------------------------------
(* Properties of the ESPN functions (SpecEspn).                            *)

\* The teams of the call that ESPN's map resolves to an id and an abbr.
ResolvedTeams ==
    {t \in teams_today : /\ t \in DOMAIN team_map
                         /\ team_map[t].abbr # ""
                         /\ team_map[t].id # ""}

\* C6: a failed roster request for one team does not abort
\* build_today_roster_index: the call does not raise, it goes on to return,
\* and on return every team of the call that ESPN's map resolves has its
\* entry in roster_index, with every named player of the roster that was
\* fetched or cached for it in roster_index and in player_to_team.
C6_RosterFailureSkipsOneTeam ==
    /\ fetch_failed # {} => pc \in {"build_loop", "build_returned", "idle"}
    /\ pc = "build_returned" =>
        /\ \A t \in ResolvedTeams : team_map[t].abbr \in DOMAIN roster_index
        /\ \A abbr \in DOMAIN got : \A i \in 1..Len(got[abbr]) :
             got[abbr][i].name # NoName =>
                /\ got[abbr][i].name \in roster_index[abbr]
                /\ got[abbr][i].name \in DOMAIN player_to_team

\* A build that returned although one roster request failed, with the
\* players of the other team indexed.
C6_Witness ==
    /\ pc = "build_returned"
    /\ fetch_failed # {}
    /\ \E abbr \in DOMAIN got \ fetch_failed :
        /\ got[abbr] # << >>
        /\ \A i \in 1..Len(got[abbr]) :
             got[abbr][i].name \in DOMAIN player_to_team

\* C8: while build_today_roster_index runs its loop, a name already in
\* player_to_team keeps its team: the first team seen keeps the key.
C8_FirstTeamKeepsName ==
    [][pc = "build_loop" =>
          \A nm \in DOMAIN player_to_team :
              nm \in DOMAIN player_to_team' /\ player_to_team'[nm] = player_to_team[nm]]_vars

\* C9: what a call with use_cache returns never left the provider on an
\* earlier UTC day than the day of the call: cached data is day-scoped.
C9_CacheIsDayScoped ==
    (pc \in {"build_returned", "inj_returned"} /\ use_cache) =>
        \A d \in asof : d = day

\* C10: a call that finds everything it asks for in the cache files (the
\* team map readable and holding every team of the call, the roster cache
\* holding every such team's abbr; for the injuries, the injury file
\* readable) sends no HTTP request, and so cannot fail.
C10_WarmCacheSendsNothing ==
    warm => (net = << >> /\ pc # "raised")

\* A build served for two teams from the caches alone.
C10_Witness ==
    /\ pc = "build_returned"
    /\ warm
    /\ Cardinality(DOMAIN roster_index) >= 2
    /\ player_to_team # EmptyMap
    /\ net = << >>

\* C11: when fetch_espn_injuries has gone through the teams and returned,
\* every entry of an injury list it fetched that has a player name and a
\* status text containing, whatever the case, one of OUT, INACTIVE,
\* DOUBTFUL, IR, DNP, SUSPENDED is in the injured set, and status holds a
\* status text and a team abbreviation for the name.
C11_UnavailableStatusesAreInjured ==
    (pc = "inj_returned" /\ ~warm) =>
        \A abbr \in DOMAIN got : \A i \in 1..Len(got[abbr]) :
            LET inj == got[abbr][i] IN
            (/\ inj.athlete # NoName
             /\ \E w \in UnavailableWords \cup {Upper(S_Suspended)} : Contains(Upper(inj.status.text), w))
            => /\ inj.athlete \in injured
               /\ inj.athlete \in DOMAIN status

\* C26: a roster fetch that failed is not kept in the roster cache as an
\* empty roster: the file build_today_roster_index has written holds no
\* empty roster for a team whose request raised in the call, and a call
\* with the cache enabled comes back with an empty roster for a team only
\* when its own request for that team raised (ESPN's rosters of the teams
\* are never empty), so that an earlier failure is fetched again.
C26_FailedRosterFetchIsNotCached ==
    pc = "build_returned" =>
        /\ \A abbr \in fetch_failed :
               roster_file[league].kind = "json"
                   => abbr \notin DOMAIN roster_file[league].data
        /\ use_cache =>
               \A abbr \in DOMAIN got : got[abbr] = << >> => abbr \in fetch_failed

---------------------------------------------------------------------------
(* Properties of the per-game loop (SpecLoop).                             *)

\* The pick p is a pick for the player the tables know as nm: it carries
\* that name, or it carries a name with nm's key and nm is on the roster of
\* one of the teams of p's game (the roster scan of lines 1058-1066 placed
\* it there).
PickIsFor(p, nm) ==
    \/ p.player = nm
    \/ /\ FuzzyKey(p.player) = FuzzyKey(nm)
       /\ \E abbr \in {p.home_abbr, p.away_abbr} :
            abbr \in DOMAIN roster_index /\ nm \in roster_index[abbr]

NeutralCtx == Ctx("", "", "", NoMainLines, EmptyMap)

\* The line `item` belongs to a player no roster of the index holds, under
\* any spelling the roster scan accepts.
OnNoRoster(item) ==
    \A abbr \in DOMAIN roster_index : ~RosterHasKey(roster_index, abbr, item.player)

NumAbove(s, m) == Cardinality({i \in 1..Len(s) : s[i].edge_score > m})

\* The number of places of s that hold the pick p.
NumOf(s, p) == Cardinality({i \in 1..Len(s) : s[i] = p})

---------------------------------------------------------------------------
(* Properties of the functions called alone (SpecFn).                      *)

\* The outcomes of outs whose side is over or under and whose point is a
\* number.
WellFormed(outs) ==
    SelectSeq(outs, LAMBDA o : /\ Lower(Strip(o.name)) \in {Lower(W_Over), Lower(W_Under)}
                               /\ o.point.some
                               /\ IsNumber(o.point))

\* C12: a call of parse_player_prop_lines never raises, and what it returns
\* is what it returns for the outcomes with an over/under side and a
\* numeric point alone: an outcome with another side, without point or with
\* a point that is not a number contributes to no line.
C12_BadOutcomesAreDiscardedSilently ==
    (arg.fn = "parse_player_prop_lines" /\ pc # "call") =>
        /\ pc = "returned"
        /\ result.lines = parse_player_prop_lines(WellFormed(arg.outs))

\* The lines of a parse as a set: (player, market) and the line.
LineSet(lines) ==
    { [player |-> lines[i].player, market_key |-> lines[i].market_key,
       line |-> lines[i].line] : i \in 1..Len(lines) }

\* C13: for every (player, market) of a body parse_player_prop_lines
\* returned lines for, the line lies between the smallest and the largest
\* point quoted for it, and the lines are the same for every other order of
\* the body's outcomes.
C13_LineIsOrderFreeAndBetweenQuotes ==
    (arg.fn = "parse_player_prop_lines" /\ pc = "returned") =>
        /\ \A i \in 1..Len(result.lines) :
            LET l == result.lines[i]
                pts == PointsOf(arg.outs, [player |-> l.player,
                                           market_key |-> l.market_key])
            IN /\ \E j \in 1..Len(pts) : pts[j] <= l.line
               /\ \E j \in 1..Len(pts) : l.line <= pts[j]
        /\ \A q \in Permutations(1..Len(arg.outs)) :
            LineSet(parse_player_prop_lines([k \in 1..Len(arg.outs) |-> arg.outs[q[k]]]))
                = LineSet(result.lines)

\* A line with three quotes, 21.5, 19 and 20.5 in that order: the median is
\* the last quoted.
C13_Witness ==
    /\ arg.fn = "parse_player_prop_lines"
    /\ pc = "returned"
    /\ Len(result.lines) = 1
    /\ PointsOf(arg.outs, [player |-> N_PJ_Odds, market_key |-> "player_points"])
           = << 21500, 19000, 20500 >>
    /\ result.lines[1].line = 20500

\* Whether an item of prop_type at `line` whose adjusted projection is `gap`
\* above the line gets a pick: the two scores of lines 926-928, the side of
\* lines 930-932 and the threshold of line 1104. They are computed from the
\* projection, the line and line_stdev; the prop type is not among their
\* arguments.
EmitsAtGap(prop_type, line, line_stdev, gap) ==
    BestSide(edge_score_from_projection(line + gap, line, "over", line_stdev),
             edge_score_from_projection(line + gap, line, "under", line_stdev)).score
        >= 65000

\* The deadzone the code has for prop_type at `line`: the smallest gap
\* between lo and hi at which a pick is emitted (the score does not fall as
\* the gap grows), by bisection.
RECURSIVE Deadzone(_, _, _, _, _)
Deadzone(prop_type, line, line_stdev, lo, hi) ==
    IF lo >= hi THEN lo
    ELSE LET mid == (lo + hi) \div 2 IN
         IF EmitsAtGap(prop_type, line, line_stdev, mid)
         THEN Deadzone(prop_type, line, line_stdev, lo, mid)
         ELSE Deadzone(prop_type, line, line_stdev, mid + 1, hi)

\* C14: an item whose adjusted projection is closer to its line than the
\* deadzone of its prop type gets no pick, and the deadzone is set by the
\* prop type: at one line, books agreeing alike, it is smaller for steals
\* than for points.
C14_DeadzoneIsSetByPropType ==
    (arg.fn = "score_prop" /\ pc = "returned" /\ arg.line > 0) =>
        LET prop_type == market_to_prop("nba", arg.market_key) IN
        /\ Abs(result.proj - arg.line) < Deadzone(prop_type, arg.line, arg.line_stdev, 0, 10000)
               => result.picks = << >>
        /\ Deadzone("steals", arg.line, arg.line_stdev, 0, 10000)
               < Deadzone("points", arg.line, arg.line_stdev, 0, 10000)


\* C15: a pick the pass over an item appends has side OVER exactly when its
\* projection is above its line, and UNDER exactly when it is below.
C15_SideFollowsTheSignOfTheGap ==
    (arg.fn = "score_prop" /\ pc = "returned") =>
        \A i \in 1..Len(result.picks) :
            LET p == result.picks[i] IN
            /\ p.side = "OVER" <=> p.proj > p.line
            /\ p.side = "UNDER" <=> p.proj < p.line

\* An UNDER pick: a player with a profile whose line is far above it.
C15_Witness ==
    /\ arg.fn = "score_prop"
    /\ pc = "returned"
    /\ Len(result.picks) = 1
    /\ result.picks[1].side = "UNDER"
    /\ result.picks[1].proj < arg.line
    /\ NBA_PLAYERS_DATA(arg.player) # NoProfile

\* The projection before the context is applied: the profile's average for
\* the prop, or the line for a player without a usable profile.
Baseline(player, prop_type, line) ==
    LET from_profile == projection_from_profile(NBA_PLAYERS_DATA(player), prop_type, "nba")
    IN IF from_profile.some THEN from_profile.v ELSE line

\* C16: in a game whose home team is favoured by 10, a points line of a
\* home-team player whose baseline projection equals the line gets an
\* adjusted projection below the baseline and no OVER pick, with a static
\* profile and with the fallback alike.
C16_HomeFavouriteIsNotPushedOver ==
    (/\ arg.fn = "score_prop"
     /\ pc = "returned"
     /\ arg.main_lines.spread_home = Num(-10000)
     /\ arg.team = "LAL"
     /\ arg.market_key = "player_points"
     /\ arg.line > 0
     /\ Baseline(arg.player, "points", arg.line) = arg.line) =>
        /\ result.proj < arg.line
        /\ \A i \in 1..Len(result.picks) : result.picks[i].side # "OVER"

\* C17: the score edge_score_from_projection returns lies between 0 and
\* 100, and so does the edge_score of every pick the pass over an item
\* appends.
C17_EdgeScoreIsBetween0And100 ==
    /\ (arg.fn = "edge_score_from_projection" /\ pc = "returned") =>
           (0 <= result.score /\ result.score <= 100000)
    /\ (arg.fn = "score_prop" /\ pc = "returned") =>
           \A i \in 1..Len(result.picks) :
               /\ 0 <= result.picks[i].edge_score
               /\ result.picks[i].edge_score <= 100000

\* A score at the top of the scale: a projection of 1000 against a line of
\* 0.5, books disagreeing or not.
C17_Witness ==
    /\ arg.fn = "edge_score_from_projection"
    /\ pc = "returned"
    /\ arg.proj = 1000000
    /\ arg.line = 500
    /\ arg.side = "over"
    /\ result.score > 79000

\* C18: a call of edge_score_from_projection with a line of 0 or less
\* returns 0 for the side asked, and the pass over an item with such a line
\* returns with a score of 0 and appends no pick.
C18_NoPickAtOrBelowZero ==
    /\ (arg.fn = "edge_score_from_projection" /\ arg.line <= 0 /\ pc # "call") =>
           (pc = "returned" /\ result.score = 0)
    /\ (arg.fn = "score_prop" /\ arg.line <= 0 /\ pc # "call") =>
           (pc = "returned" /\ result.score = 0 /\ result.picks = << >>)

\* A steals line of 0 for a player whose profile averages 1.2 steals.
C18_Witness ==
    /\ arg.fn = "score_prop"
    /\ pc = "returned"
    /\ arg.line = 0
    /\ arg.player = N_LJ
    /\ arg.market_key = "player_steals"
    /\ result.proj > 1000
    /\ result.picks = << >>

\* C19: what normalize_player_name returns it returns unchanged when called
\* on it again, and for a missing or empty name it returns the empty
\* string.
C19_NormalizeIsIdempotent ==
    (arg.fn = "normalize_player_name" /\ pc = "returned") =>
        /\ normalize_player_name(result.name) = result.name
        /\ arg.name = NoName => result.name = NoName

\* A name the call changed: blanks taken from both ends and the spelling of
\* the fixes table replaced.
C19_Witness ==
    /\ arg.fn = "normalize_player_name"
    /\ pc = "returned"
    /\ arg.name = << " " >> \o N_SGA_Blank \o << " " >>
    /\ result.name = N_SGA

\* Two names that differ in capitals and periods only.
SameButCaseAndPeriods(a, b) ==
    Lower(Replace(a, ".", << >>)) = Lower(Replace(b, ".", << >>))

\* C20: what normalize_player_name returns is in lowercase and without
\* periods, and it is the same for two names that differ in capitals and
\* periods only.
C20_NormalizeGivesACanonicalKey ==
    (arg.fn = "normalize_player_name" /\ pc = "returned") =>
        /\ result.name = Lower(Replace(result.name, ".", << >>))
        /\ \A c \in NameCalls :
               SameButCaseAndPeriods(c.name, arg.name)
                   => normalize_player_name(c.name) = result.name

\* C22: compute_blowout_risk returns 0.90 for a spread of 14 or more, 0.65
\* from 10 to below 14, 0.40 from 7 to below 10, a value from 0.15 to 0.18
\* below 7, and a value from 0.20 to 0.25 for an unknown spread.
C22_BlowoutRiskIsAStepFunction ==
    (arg.fn = "compute_blowout_risk" /\ pc = "returned") =>
        LET sa == arg.spread_abs
            r == result.risk
        IN IF ~sa.some THEN 200000 <= r /\ r <= 250000
           ELSE IF sa.v >= 14000 THEN r = 900000
           ELSE IF sa.v >= 10000 THEN r = 650000
           ELSE IF sa.v >= 7000 THEN r = 400000
           ELSE 150000 <= r /\ r <= 180000

\* C23: an item whose player and prop type have no projection in the static
\* profiles, so that score_prop starts from the line, gets no pick,
\* whatever the main lines and the injury counts of its game.
C23_FallbackGivesNoSignal ==
    (/\ arg.fn = "score_prop"
     /\ pc = "returned"
     /\ ~projection_from_profile(NBA_PLAYERS_DATA(arg.player),
                                 market_to_prop("nba", arg.market_key), "nba").some)
        => result.picks = << >>

\* C24: the script multiplier of an NFL projection. With a spread and the
\* player's team the favourite it is at most 1 for pass_yards and pass_td
\* and at least 1 for rush_yards and carries; with the team not the
\* favourite the other way round; without a spread or without a favourite
\* it is 1; for every other prop it is 1.
C24_NflScriptFollowsTheFavourite ==
    (arg.fn = "apply_context_multipliers" /\ pc = "returned") =>
        LET m == result.script
            pass == arg.prop_type \in {"pass_yards", "pass_td"}
            rush == arg.prop_type \in {"rush_yards", "carries"}
        IN /\ (arg.spread_abs.some /\ arg.is_favorite = "True") =>
                  /\ pass => m <= 1000000
                  /\ rush => m >= 1000000
           /\ (arg.spread_abs.some /\ arg.is_favorite = "False") =>
                  /\ pass => m >= 1000000
                  /\ rush => m <= 1000000
           /\ (~arg.spread_abs.some \/ arg.is_favorite = "None") => m = 1000000
           /\ (~pass /\ ~rush) => m = 1000000

\* A favourite by 14: the pass yards are cut by a tenth.
C24_Witness ==
    /\ arg.fn = "apply_context_multipliers"
    /\ pc = "returned"
    /\ arg.prop_type = "pass_yards"
    /\ arg.is_favorite = "True"
    /\ arg.spread_abs = Num(14000)
    /\ result.script = 900000
    /\ result.proj < 100000

\* C25: the script bias of an NFL game depends on its total: for the
\* favourite by 14 the projection of a pass or rush volume prop in a game
\* with a low total (35) differs from the one in a game with a very high
\* total (60).
C25_NflScriptDependsOnTheTotal ==
    (/\ arg.fn = "apply_context_multipliers"
     /\ pc = "returned"
     /\ arg.prop_type \in {"pass_yards", "pass_td", "rush_yards", "carries"}
     /\ arg.is_favorite = "True"
     /\ arg.spread_abs = Num(14000)
     /\ arg.total = Num(35000)) =>
        apply_context_multipliers(100000, "nfl", arg.prop_type,
                                  ContextOf([arg EXCEPT !.total = Num(60000)]),
                                  NoProfile)
            # result.proj

\* C28: for an NBA player whose prop type has no projection in the static
\* profiles, the projection of score_prop is the line under the context
\* multipliers, the opponent's pace among them once: line x pace_adjust x
\* the other multipliers.
C28_FallbackAppliesPaceOnce ==
    (/\ arg.fn = "score_prop"
     /\ pc = "returned"
     /\ ~projection_from_profile(NBA_PLAYERS_DATA(arg.player),
                                 market_to_prop("nba", arg.market_key), "nba").some)
        => result.proj
             = apply_context_multipliers(
                   arg.line, "nba", market_to_prop("nba", arg.market_key),
                   Ctx(arg.team, "LAL", "GS", arg.main_lines, arg.counts),
                   NBA_PLAYERS_DATA(arg.player))

\* C29: update_dashboard.py leaves every character of the file outside the
\* span between the first 'Last Updated:' and the next '</p>' as it was:
\* the file afterwards begins with the old file up to the end of the marker
\* and ends with the old file from that '</p>' on; a file without the
\* marker is written back as it was.
C29_OnlyTheTimestampSpanChanges ==
    (arg.fn = "update_dashboard" /\ pc \in {"returned", "raised"}) =>
        LET old == arg.content
            new == result.content
            at == Index(old, marker, 1)
            start == at + Len(marker)
            end == Index(old, EndOfParagraph, start)
            tail == Len(old) - end + 1
        IN IF at = 0 \/ end = 0 THEN new = old
           ELSE /\ Len(new) >= (start - 1) + tail
                /\ SubSeq(new, 1, start - 1) = SubSeq(old, 1, start - 1)
                /\ SubSeq(new, Len(new) - tail + 1, Len(new))
                       = SubSeq(old, end, Len(old))

=============================================================================
